---- MODULE Spec2Model ----
(***************************************************************************)
(* A model of the asynchronous record pipeline of tymonx/go-logger:        *)
(*   - Worker (worker.go:31-161): the records channel, the flush channel,  *)
(*     the run loop and emit;                                              *)
(*   - Logger (logger.go): logMessage, Flush, Close and the handler set;   *)
(*   - Stream (stream handler with an Opener): level range, enable flag,   *)
(*     lazily opened writer, Close;                                        *)
(*   - the earlier worker (worker.go:194-303) with its stop signal,        *)
(*     closeQueue and close.                                               *)
(* Variables written only to observe the program (enqueued, dispatched,    *)
(* lastVisit, errSeen, fsnap, ksnap, closeCalls, cresults) are history     *)
(* variables: no guard of the program reads them.                          *)
(***************************************************************************)
EXTENDS Integers, Sequences, FiniteSets, TLC

(* ---------------------------- bounds ---------------------------------- *)
\* capacity of the records channel in the model (DefaultQueueLength scaled)
QueueLength == 2
\* number of identified records the producers create
MaxRecords == 3
\* number of resources the openers can hand out
MaxResources == 2
\* closeCalls saturates here ("this many or more")
CloseCallsCap == 2
\* number of Logger.Close calls a caller makes
MaxCloses == 2
\* number of times SetQueueLength replaces the channel
MaxReplacements == 1
\* longest message template, in tokens, and longest argument list
MaxTokens == 2
MaxArgs == 2

(* ------------------------ program constants --------------------------- *)
FlushLength == 1
TraceLevel == 0
NoticeLevel == 30
WarningLevel == 40
ErrorLevel == 50
CriticalLevel == 60
AlertLevel == 70
DefaultSyslogFacility == 1
MinimumLevel == 0
DebugLevel == 10
InfoLevel == 20
FatalLevel == 80
PanicLevel == 90
MaximumLevel == 90

Producers == {"p1", "p2"}
\* the one thread that logs in SpecDispatch
DispatchProducers == {"p3"}
Flushers == {"f1", "f2"}
Closers == {"c1"}
HandlerNames == {"h1", "h2"}
\* the levels the model's callers log at and set ranges to
TestLevels == {DebugLevel, InfoLevel}
\* every caller that hands the worker a wait group
Waiters == Flushers \cup Closers
\* the thread that calls Fatal or Panic
FatalCallers == {"t1"}
\* the threads that call GetWorker or Get, and the two getters
OnceCallers == {"g1", "g2", "g3"}
Getters == {"GetWorker", "Get"}
\* File: the default name and the names SetName is called with
DefaultFileName == "log"
DefaultErrorCode == 1
loggerSkipCall == 2
NoFrame == [kind |-> "none", fn |-> ""]
\* the messages a caller passes to Fatal and Panic
FatalMessages == {"disk full", "Panic error"}
NoMessage == "none"
\* the generator New and Reset give a Logger, and the name init registers it under
DefaultIDGenerator == "uuid4"
\* the handler names the init functions register
RegisteredHandlers == {"stdout", "stderr", "stream", "syslog", "file"}
\* a name nobody has registered until a caller does
CustomName == "custom"
ErrorCodes == {DefaultErrorCode, DefaultErrorCode + 1}
LoggerNames == {"", "app"}
NoObject == "nil"
NoLookup == [op |-> "none", name |-> "", known |-> TRUE, obj |-> NoObject, err |-> FALSE]
FileNames == {DefaultFileName, "other"}
\* the goroutines whose locking is followed: the worker, a producer, a Flush
\* caller, a Close caller and a caller of setters
LockWorker == "w"
SetterCallers == {"s1"}
LockThreads == {LockWorker, "p1", "f1", "c1"} \cup SetterCallers
\* Logger.mutex, Stream.mutex of each handler, Formatter.mutex of its formatter
LoggerMutex == "logger"
FormatterOf(h) == IF h = "h1" THEN "formatter1" ELSE "formatter2"
Mutexes == {LoggerMutex} \cup HandlerNames \cup {FormatterOf(h) : h \in HandlerNames}
\* NewStream: no writer, no closer, no reopen request, a Formatter of its own,
\* the full level range, enabled
NewStream == [writer |-> 0, closer |-> 0, reopen |-> FALSE, formatter |-> 1,
              minimumLevel |-> MinimumLevel, maximumLevel |-> MaximumLevel,
              isDisabled |-> FALSE]
\* no call has been made on the Stream
NoCall == [call |-> "none", events |-> <<>>, err |-> FALSE, wrote |-> FALSE,
           openFailed |-> FALSE, before |-> NewStream]
\* a writer that is no closer (a bytes.Buffer, os.Stdout)
PlainWriter == -1
\* sync.RWMutex with no writer and no reader
FreeMutex == [w |-> "none", r |-> {}]

NoRec == [id |-> -1, level |-> -1]
NoFlush == "none"
NoError == "nil"
NoResult == [message |-> <<>>, err |-> FALSE, called |-> FALSE]
\* no flush branch has run
\* a Record with every field at its zero value: empty strings, paths and
\* Timestamp.Created are <<>>, a nil ID and a nil logger are 0
NoRecord == [Type |-> "", Name |-> "", ID |-> 0, Address |-> "", Hostname |-> "",
             Path |-> <<>>, FileName |-> "", Function |-> <<>>, Created |-> <<>>,
             Time |-> 0, Level |-> 0, logger |-> 0]
\* no log call noted yet
NoCallTime == [id |-> 0, handlers |-> {}, min |-> <<>>, max |-> <<>>, name |-> ""]
NoDrain == [held |-> <<>>, taken |-> <<>>]
NoVisit == [id |-> -1, handler |-> "none", level |-> -1, min |-> -1, max |-> -1,
            disabled |-> FALSE, invoked |-> FALSE, err |-> FALSE]

VARIABLES
    queue,       \* Worker.records: the buffered channel, oldest first
    flushChan,   \* Worker.flush: buffered channel of wait groups (one per caller)
    pending,     \* per producer: the record it is blocked sending, or NoRec
    nextId,      \* next record identity
    enqueued,    \* history: ids in the order their sends completed
    dispatched,  \* history: ids in the order their emit completed
    wpc,         \* worker position
    wmode,       \* which branch of the loop the record in hand came from
    wcount,      \* Worker.run: the local "records" of the flush branch
    wflush,      \* Worker.run: the local "flush"
    wrec,        \* the record in the worker's hand
    wtodo,       \* emit: handlers of the range loop not yet visited
    wvisited,    \* emit: handlers visited for the record in hand
    wgot,        \* emit: handlers whose Emit was invoked for the record in hand
    werr,        \* emit: some Emit of this record returned an error
    lastVisit,   \* history: the last iteration of the range loop of the emit under way
    errSeen,     \* history: a completed emit had an Emit that returned an error
    fpc,         \* per Flush caller: position
    fsnap,       \* history: Len(enqueued) when the Flush call began
    fdone,       \* per Flush caller: its wait group reached zero
    lhandlers,   \* Logger.handlers (names)
    lockW,       \* Logger.mutex held for writing (by whom), or "none"
    hMin,        \* Stream.minimumLevel
    hMax,        \* Stream.maximumLevel
    hDisabled,   \* Stream.isDisabled
    sWriter,     \* Stream.writer / Stream.closer: resource id, 0 = nil
    sReopen,     \* Stream.reopen
    nextRes,     \* next resource the opener returns
    closeCalls,  \* history: per resource, calls of its Close (saturating)
    cpc,         \* per Logger.Close caller: position
    ctodo,       \* Logger.Close: handlers of the range loop not yet closed
    cerr,        \* Logger.Close: the local "err" (the handler it comes from)
    cresults,    \* history: per caller, the results of its completed Close calls
    chClosed,    \* earlier worker: the records channel is closed
    isQueueClosed, \* earlier worker: worker.isQueueClosed
    signals,     \* earlier worker: worker.signals (number of buffered signals)
    wgDone,      \* earlier worker: waitGroup.Done() was called
    panicked,    \* producers that panicked sending on the closed channel
    kpc,         \* per caller of the earlier worker's close: position
    ksnap,       \* history: Len(enqueued) when close was called
    clog,        \* history: per Close caller, the handlers its call closed, in order, with the outcome
    tpc,         \* per Fatal/Panic caller: position
    tkind,       \* per Fatal/Panic caller: which of the two it called
    tid,         \* history: per Fatal/Panic caller, the id of the record it logged
    tdefault,    \* the Logger of the model is the process-wide one (gInstance)
    once,        \* gWorkerOnce / gOnce: "new", "running" (a caller is inside Do's function) or "done"
    instance,    \* gWorkerInstance / gInstance: the object's number, 0 = nil
    made,        \* history: how many Workers / Loggers NewWorker / New made
    loops,       \* history: how many "go worker.run()" were started
    gpc,         \* per caller of GetWorker / Get: position
    gwhich,      \* per caller: which of the two it called
    gtmp,        \* per caller inside Do's function: the object it made
    gret,        \* per caller: the instance its call returned
    fName,       \* File.name of the handler (the target its Open opens)
    stale,       \* history: resources opened before a later change of their handler's target
    fmsg,        \* Record.Message of the record given to FormatMessage: its template, token by token
    fargs,       \* Record.Arguments of that record: the kind of each argument
    fres,        \* what FormatMessage returned, or NoResult
    fmtpc,       \* the caller of FormatMessage: "call" or "done"
    usedArguments, \* Formatter.usedArguments: the positions marked used
    messageBuffer, \* Formatter.messageBuffer: the text the last message template wrote
    ftrail,      \* history: how far the repeated calls on the record have come
    format,      \* Formatter.format: the top-level template, token by token
    dateFormat,  \* Formatter.dateFormat: the template of the date
    funcs,       \* the names AddFuncs has given to Formatter.template
    topc,        \* the caller that configures the Formatter and then calls it: "config" or "done"
    tres,        \* what the caller's call returned, or NoOutput
    printed,     \* the failures printError has written to the standard error stream
    lname,       \* Logger.name
    lidGenerator, \* Logger.idGenerator (the kind of generator)
    lerrorCode,  \* Logger.errorCode
    gHandlerConstructors,     \* the names RegisterHandler has registered
    gIDGeneratorConstructors, \* the names RegisterIDGenerator has registered
    lres,        \* what the last lookup by name returned, or NoLookup
    tmessage,    \* per caller of Fatal / Panic: the message it passed
    traised,     \* per caller of Panic: the message of the value its panic carries
    stack,       \* the call stack of a goroutine that logs, outermost frame first
    csource,     \* Record.File of the record that call builds: the frame captured, or NoFrame
    cskip,       \* history: the skip count that capture passed to runtime.Caller
    drain,       \* history: the flush branch under way: what the queue held, what it has dequeued
    mu,          \* RWMutex of the Logger, of each Stream and of each Formatter, the writer that announced itself and the readers inside
    lops,        \* per goroutine, the lock and channel operations left of the call it is in, next first
    stream,      \* the fields writer, closer and reopen of one Stream followed call by call (0 = nil)
    sopen,       \* history: the resources that Stream opened or was given and that no Close has closed with success
    slog,        \* history: the last call on that Stream: what it did with resources, what it returned, the fields before it
    qcap,        \* cap(w.records), the capacity of the channel Worker.records refers to
    qold,        \* the channels SetQueueLength replaced, oldest first, each with its capacity and the records left in it
    qbind,       \* per goroutine that has evaluated w.records for a send or a select under way, the replaced channel it got (0 = the one w.records refers to)
    irec,        \* the pre-built Record handed to Logger.Emit, as the worker has it
    ipre,        \* history: that Record as it was when Logger.Emit was called
    ipc,         \* where the injected Record is: none, queued, prepared, named, emitted
    igot,        \* the handlers Worker.emit called Emit on with the injected Record
    atCall,      \* history: the handler set, the level ranges and the logger name in force at the latest log call, with the id of its record
    wname,       \* record.Name as Worker.emit assigned it for the record under dispatch
    facility,    \* Syslog.facility
    ylast        \* the level and the syslogPriority result of the latest two records the Syslog handler formatted

vars == <<queue, flushChan, pending, nextId, enqueued, dispatched, wpc, wmode,
          wcount, wflush, wrec, wtodo, wvisited, wgot, werr, lastVisit, errSeen,
          fpc, fsnap, fdone, lhandlers, lockW, hMin, hMax, hDisabled, sWriter,
          sReopen, nextRes, closeCalls, cpc, ctodo, cerr, cresults, chClosed,
          isQueueClosed, signals, wgDone, panicked, kpc, ksnap, clog, tpc,
          tkind, tid, tdefault, once, instance, made, loops, gpc, gwhich, gtmp,
          gret, fName, stale, fmsg, fargs, fres, fmtpc, usedArguments,
          messageBuffer, ftrail, format, dateFormat, funcs, topc, tres,
          printed, lname, lidGenerator, lerrorCode, gHandlerConstructors,
          gIDGeneratorConstructors, lres, tmessage, traised, stack, csource,
          cskip, drain,
          mu, lops,
          stream, sopen, slog,
          qcap, qold, qbind,
          irec, ipre, ipc, igot,
          atCall, wname,
          facility, ylast>>

workerVars == <<wpc, wmode, wcount, wflush, wrec, wtodo, wvisited, wgot, werr>>
histVars == <<lastVisit, errSeen>>
flushVars == <<fpc, fsnap, fdone>>
handlerVars == <<hMin, hMax, hDisabled>>
streamVars == <<sWriter, sReopen, nextRes, closeCalls>>
closeVars == <<cpc, ctodo, cerr, cresults, clog>>
oldVars == <<chClosed, isQueueClosed, signals, wgDone, panicked, kpc, ksnap>>
fatalVars == <<tpc, tkind, tid, tdefault, tmessage, traised>>
\* the variables of the parts of the program the pipeline's actions never touch
onceVars == <<once, instance, made, loops, gpc, gwhich, gtmp, gret>>
fileVars == <<fName, stale>>
cfgVars == <<format, dateFormat, funcs, topc, tres, printed>>
fmtVars == <<fmsg, fargs, fres, fmtpc, usedArguments, messageBuffer, ftrail, cfgVars>>
confVars == <<lname, lidGenerator, lerrorCode, gHandlerConstructors,
              gIDGeneratorConstructors, lres>>
callVars == <<stack, csource, cskip>>
drainVars == <<drain>>
lockVars == <<mu, lops>>
stVars == <<stream, sopen, slog>>
queueVars == <<qcap, qold, qbind>>
injVars == <<irec, ipre, ipc, igot>>
winVars == <<atCall, wname>>
sysVars == <<facility, ylast>>
restVars == <<fatalVars, onceVars, fileVars, fmtVars, confVars, callVars, drainVars, lockVars, stVars, queueVars, injVars, winVars, sysVars>>
\* restVars without fatalVars, without onceVars, without fileVars
notFatalVars == <<onceVars, fileVars, fmtVars, confVars, callVars, drainVars, lockVars, stVars, queueVars, injVars, winVars, sysVars>>
notOnceVars == <<fatalVars, fileVars, fmtVars, confVars, callVars, drainVars, lockVars, stVars, queueVars, injVars, winVars, sysVars>>
notFileVars == <<fatalVars, onceVars, fmtVars, confVars, callVars, drainVars, lockVars, stVars, queueVars, injVars, winVars, sysVars>>
notFmtVars == <<fatalVars, onceVars, fileVars, confVars, callVars, drainVars, lockVars, stVars, queueVars, injVars, winVars, sysVars>>
notConfVars == <<fatalVars, onceVars, fileVars, fmtVars, callVars, drainVars, lockVars, stVars, queueVars, injVars, winVars, sysVars>>
notCallVars == <<fatalVars, onceVars, fileVars, fmtVars, confVars, drainVars, lockVars, stVars, queueVars, injVars, winVars, sysVars>>
notDrainVars == <<fatalVars, onceVars, fileVars, fmtVars, confVars, callVars, lockVars, stVars, queueVars, injVars, winVars, sysVars>>
notLockVars == <<fatalVars, onceVars, fileVars, fmtVars, confVars, callVars, drainVars, stVars, queueVars, injVars, winVars, sysVars>>
notStVars == <<fatalVars, onceVars, fileVars, fmtVars, confVars, callVars, drainVars, lockVars, queueVars, injVars, winVars, sysVars>>
notQueueVars == <<fatalVars, onceVars, fileVars, fmtVars, confVars, callVars, drainVars, lockVars, stVars, injVars, winVars, sysVars>>
notInjVars == <<fatalVars, onceVars, fileVars, fmtVars, confVars, callVars, drainVars, lockVars, stVars, queueVars, winVars, sysVars>>
notWinVars == <<fatalVars, onceVars, fileVars, fmtVars, confVars, callVars, drainVars, lockVars, stVars, queueVars, injVars, sysVars>>
notSysVars == <<fatalVars, onceVars, fileVars, fmtVars, confVars, callVars, drainVars, lockVars, stVars, queueVars, injVars, winVars>>
\* the variables of the pipeline: worker, Logger, handlers
baseVars == <<queue, flushChan, pending, nextId, enqueued, dispatched,
              workerVars, histVars, flushVars, lhandlers, lockW, handlerVars,
              streamVars, closeVars, oldVars>>

(* ------------------------------ Init ---------------------------------- *)
\* NewWorker, New, NewStream: empty channels, the worker at its select, two
\* stream handlers with an opener, full level range, enabled, nothing opened.
InitBase ==
    /\ queue = <<>>
    /\ flushChan = <<>>
    /\ pending = [p \in Producers \cup DispatchProducers \cup FatalCallers |-> NoRec]
    /\ nextId = 1
    /\ enqueued = <<>>
    /\ dispatched = <<>>
    /\ wmode = "record"
    /\ wcount = 0
    /\ wflush = NoFlush
    /\ wrec = NoRec
    /\ wtodo = {}
    /\ wvisited = {}
    /\ wgot = {}
    /\ werr = FALSE
    /\ lastVisit = NoVisit
    /\ errSeen = FALSE
    /\ fpc = [f \in Flushers |-> "idle"]
    /\ fsnap = [f \in Flushers |-> 0]
    /\ fdone = [f \in Waiters |-> FALSE]
    /\ lhandlers = HandlerNames
    /\ lockW = "none"
    /\ hMin = [h \in HandlerNames |-> MinimumLevel]
    /\ hMax = [h \in HandlerNames |-> MaximumLevel]
    /\ hDisabled = [h \in HandlerNames |-> FALSE]
    /\ sWriter = [h \in HandlerNames |-> 0]
    /\ sReopen = [h \in HandlerNames |-> FALSE]
    /\ nextRes = 1
    /\ closeCalls = [r \in 1..MaxResources |-> 0]
    /\ cpc = [c \in Closers |-> "idle"]
    /\ ctodo = [c \in Closers |-> {}]
    /\ cerr = [c \in Closers |-> NoError]
    /\ cresults = [c \in Closers |-> <<>>]
    /\ clog = [c \in Closers |-> <<>>]
    /\ tpc = [t \in FatalCallers |-> "idle"]
    /\ tkind = [t \in FatalCallers |-> "none"]
    /\ tid = [t \in FatalCallers |-> 0]
    /\ tmessage = [t \in FatalCallers |-> NoMessage]
    /\ traised = [t \in FatalCallers |-> NoMessage]
    /\ once = [k \in Getters |-> "new"]
    /\ instance = [k \in Getters |-> 0]
    /\ made = [k \in Getters |-> 0]
    /\ loops = 0
    /\ gpc = [c \in OnceCallers |-> "idle"]
    /\ gwhich = [c \in OnceCallers |-> "none"]
    /\ gtmp = [c \in OnceCallers |-> 0]
    /\ gret = [c \in OnceCallers |-> 0]
    /\ fName = [h \in HandlerNames |-> DefaultFileName]
    /\ stale = {}
    /\ lname = ""
    /\ lidGenerator = DefaultIDGenerator
    /\ lerrorCode = DefaultErrorCode
    /\ gHandlerConstructors = RegisteredHandlers
    /\ gIDGeneratorConstructors = {DefaultIDGenerator}
    /\ lres = NoLookup
    /\ stack = <<>>
    /\ csource = NoFrame
    /\ cskip = 0
    /\ drain = NoDrain
    /\ mu = [m \in Mutexes |-> FreeMutex]
    /\ lops = [t \in LockThreads |-> <<>>]
    /\ stream = NewStream
    /\ sopen = {}
    /\ slog = NoCall
    /\ qcap = QueueLength
    /\ qold = <<>>
    /\ qbind = [t \in Producers \cup {LockWorker} |-> 0]
    /\ irec = NoRecord
    /\ ipre = NoRecord
    /\ ipc = "none"
    /\ igot = {}
    /\ atCall = NoCallTime
    /\ wname = ""
    /\ facility = DefaultSyslogFacility
    /\ ylast = <<>>
    /\ chClosed = FALSE
    /\ isQueueClosed = FALSE
    /\ signals = 0
    /\ wgDone = FALSE
    /\ panicked = {}
    /\ kpc = [c \in Closers |-> "idle"]
    /\ ksnap = [c \in Closers |-> 0]

\* one token of a template: a kind and, for a positional placeholder, its number
Token(kind) == [kind |-> kind, n |-> 0]

\* DefaultFormat "{date} - {Level | printf ...} - {file}:{line}:{function}(): {message}":
\* the date, text and functions of the record that cannot fail, the message
DefaultFormat == <<Token("date"), Token("text"), Token("message")>>
\* DefaultDateFormat "{year}-{month}-{day} ...": functions of the record that cannot fail
DefaultDateFormat == <<Token("text")>>

NoOutput == [op |-> "none", out |-> <<>>, err |-> FALSE]

\* NewFormatter: the default formats, no function added, nothing marked,
\* nothing written
NewFormatter ==
    /\ usedArguments = {}
    /\ messageBuffer = <<>>
    /\ ftrail = "none"
    /\ format = DefaultFormat
    /\ dateFormat = DefaultDateFormat
    /\ funcs = {}
    /\ tres = NoOutput
    /\ printed = {}

\* no FormatMessage call is followed
FormatIdle ==
    /\ fmsg = <<>>
    /\ fargs = <<>>
    /\ fres = NoResult
    /\ fmtpc = "done"
    /\ topc = "done"
    /\ NewFormatter

\* the Logger of the model is the one Get returns
InitCommon == InitBase /\ tdefault = TRUE /\ FormatIdle

\* NewWorker: "go worker.run()" leaves the worker at the select of run
Init == InitCommon /\ wpc = "select"

(* ----------------------- channel operations --------------------------- *)
\* a send on a buffered channel completes only while the buffer has room
ChanCanSend(q, cap) == Len(q) < cap

\* mutant: the value is put in front of the buffered ones
ChanSendFront(q, r) == <<r>> \o q

\* mutant: a send that would fill the buffer drops the value instead
ChanSendLossy(q, r) == IF Len(q) + 1 >= QueueLength THEN q ELSE Append(q, r)

\* a completed send puts the value behind everything already buffered
ChanSend(q, r) == Append(q, r)

\* history: identified records (id > 0) are noted, anonymous ones are not
Note(seq, id) == IF id > 0 THEN Append(seq, id) ELSE seq

(* --------------------------- producers -------------------------------- *)
\* how many identified records exist at most when producer p creates one
RecordLimit(p) == IF p \in DispatchProducers THEN MaxRecords - 1 ELSE MaxRecords

\* Logger.logMessage up to the channel send: the record is built from the
\* call's arguments, the clock and the call site; it holds nothing of the
\* logger but the pointer to it
BuildRecord(p, lvl) ==
    /\ pending[p] = NoRec
    /\ p \notin panicked
    /\ nextId <= RecordLimit(p)
    /\ pending' = [pending EXCEPT ![p] = [id |-> nextId, level |-> lvl]]
    /\ nextId' = nextId + 1
    /\ UNCHANGED <<queue, flushChan, enqueued, dispatched, workerVars, histVars,
                   flushVars, lhandlers, lockW, handlerVars, streamVars,
                   closeVars, oldVars>>

LogMessage(p, lvl) ==
    /\ BuildRecord(p, lvl)
    /\ UNCHANGED restVars

\* Logger.logMessage: "GetWorker().records <- record" completes
Send(p) ==
    /\ pending[p] # NoRec
    /\ ~chClosed
    /\ ChanCanSend(queue, QueueLength)
    /\ queue' = ChanSend(queue, pending[p])
    /\ enqueued' = Note(enqueued, pending[p].id)
    /\ pending' = [pending EXCEPT ![p] = NoRec]
    /\ UNCHANGED <<flushChan, nextId, dispatched, workerVars, histVars,
                   flushVars, lhandlers, lockW, handlerVars, streamVars,
                   closeVars, oldVars, restVars>>

(* ------------------------- Worker.Flush ------------------------------- *)
\* Worker.Flush: flush := new(sync.WaitGroup); flush.Add(1)
FlushCall(f) ==
    /\ fpc[f] \in {"idle", "returned"}
    /\ fpc' = [fpc EXCEPT ![f] = "send"]
    /\ fsnap' = [fsnap EXCEPT ![f] = Len(enqueued)]
    /\ fdone' = [fdone EXCEPT ![f] = FALSE]
    /\ UNCHANGED <<queue, flushChan, pending, nextId, enqueued, dispatched,
                   workerVars, histVars, lhandlers, lockW, handlerVars,
                   streamVars, closeVars, oldVars, restVars>>

\* Worker.Flush: w.flush <- flush
FlushSend(f) ==
    /\ fpc[f] = "send"
    /\ ChanCanSend(flushChan, FlushLength)
    /\ flushChan' = Append(flushChan, f)
    /\ fpc' = [fpc EXCEPT ![f] = "wait"]
    /\ UNCHANGED <<queue, pending, nextId, enqueued, dispatched, workerVars,
                   histVars, fsnap, fdone, lhandlers, lockW, handlerVars,
                   streamVars, closeVars, oldVars, restVars>>

\* Worker.Flush: flush.Wait() returns
FlushReturn(f) ==
    /\ fpc[f] = "wait"
    /\ fdone[f]
    /\ fpc' = [fpc EXCEPT ![f] = "returned"]
    /\ UNCHANGED <<queue, flushChan, pending, nextId, enqueued, dispatched,
                   workerVars, histVars, fsnap, fdone, lhandlers, lockW,
                   handlerVars, streamVars, closeVars, oldVars, restVars>>

(* -------------------------- Worker.run -------------------------------- *)
\* mutant: the flush branch drains one record fewer than are queued
FlushCountShort(q) == Len(q) - 1

\* the number of records the flush branch drains: len(w.records)
FlushCount(q) == Len(q)

\* mutant: the flush branch forgets flush.Done()
WaitGroupDoneMissing(fd, f) == fd

\* flush.Done(): the caller's wait group reaches zero
WaitGroupDone(fd, f) == [fd EXCEPT ![f] = TRUE]

\* select: case flush := <-w.flush
WorkerSelectFlush ==
    /\ wpc = "select"
    /\ flushChan # <<>>
    /\ wflush' = Head(flushChan)
    /\ flushChan' = Tail(flushChan)
    /\ wpc' = "flushLen"
    /\ UNCHANGED <<queue, pending, nextId, enqueued, dispatched, wmode, wcount,
                   wrec, wtodo, wvisited, wgot, werr, histVars, flushVars,
                   lhandlers, lockW, handlerVars, streamVars, closeVars, oldVars, restVars>>

\* flush branch: records := len(w.records)
WorkerFlushLen ==
    /\ wpc = "flushLen"
    /\ wcount' = FlushCount(queue)
    /\ wpc' = "drain"
    /\ drain' = [held |-> queue, taken |-> <<>>]
    /\ UNCHANGED <<queue, flushChan, pending, nextId, enqueued, dispatched,
                   wmode, wflush, wrec, wtodo, wvisited, wgot, werr, histVars,
                   flushVars, lhandlers, lockW, handlerVars, streamVars,
                   closeVars, oldVars, notDrainVars>>

\* mutant: the loop goes on while the queue holds a record (the length is
\* evaluated again at every turn)
DrainWhileQueued(records, q) == Len(q) > 0

\* the loop condition of the flush branch: records > 0, "records" being the
\* local that was set once
DrainGoesOn(records, q) == records > 0

\* flush branch, records > 0: record := <-w.records
WorkerDrainRecv ==
    /\ wpc = "drain"
    /\ DrainGoesOn(wcount, queue)
    /\ queue # <<>>
    /\ wrec' = Head(queue)
    /\ queue' = Tail(queue)
    /\ wmode' = "flush"
    /\ wpc' = "rlock"
    /\ drain' = [drain EXCEPT !.taken = Append(@, Head(queue))]
    /\ UNCHANGED <<flushChan, pending, nextId, enqueued, dispatched, wcount,
                   wflush, wtodo, wvisited, wgot, werr, histVars, flushVars,
                   lhandlers, lockW, handlerVars, streamVars, closeVars, oldVars,
                   notDrainVars>>

\* mutant: the loop ends with the flush that Logger.Close asked for
StopsAfterClose(caller) == IF caller \in Closers THEN "stopped" ELSE "select"

\* run after a flush was served: the "for" loop has no exit, whoever asked
\* for the flush
AfterFlush(caller) == "select"

\* flush branch, loop over: flush.Done()
WorkerFlushDone ==
    /\ wpc = "drain"
    /\ ~DrainGoesOn(wcount, queue)
    /\ fdone' = WaitGroupDone(fdone, wflush)
    /\ wflush' = NoFlush
    /\ wpc' = AfterFlush(wflush)
    /\ drain' = NoDrain
    /\ UNCHANGED <<queue, flushChan, pending, nextId, enqueued, dispatched,
                   wmode, wcount, wrec, wtodo, wvisited, wgot, werr, histVars,
                   fpc, fsnap, lhandlers, lockW, handlerVars, streamVars,
                   closeVars, oldVars, notDrainVars>>

\* select: case record := <-w.records
WorkerSelectRecord ==
    /\ wpc = "select"
    /\ queue # <<>>
    /\ wrec' = Head(queue)
    /\ queue' = Tail(queue)
    /\ wmode' = "record"
    /\ wpc' = "rlock"
    /\ UNCHANGED <<flushChan, pending, nextId, enqueued, dispatched, wcount,
                   wflush, wtodo, wvisited, wgot, werr, histVars, flushVars,
                   lhandlers, lockW, handlerVars, streamVars, closeVars, oldVars, restVars>>

(* ------------------------ Stream (handler) ---------------------------- *)
\* what the environment does to one Emit or Close: TRUE = the call succeeds
IOOutcomes == [open : BOOLEAN, write : BOOLEAN, close : BOOLEAN]

\* the environment in which every open, write and close succeeds
IOSucceeds == [open |-> TRUE, write |-> TRUE, close |-> TRUE]

\* history: one more call of resource r's Close
BumpClose(cc, r) == [cc EXCEPT ![r] = IF @ < CloseCallsCap THEN @ + 1 ELSE @]

\* a stream that opens at every Emit
MustOpenAlways(closeFailed, w) == ~closeFailed

\* Stream.Emit calls Open: (s.writer == nil) && (s.closer == nil) &&
\* (s.opener != nil), when the reopen part did not return
MustOpen(closeFailed, w) == ~closeFailed /\ w = 0

\* Stream.Emit: the stream's fields after the call and whether it returned an
\* error. The handler has an opener (File, Syslog), so writer = closer.
StreamEmit(h, io) ==
    LET w0 == sWriter[h]
        mustClose == sReopen[h] /\ w0 # 0
        cc1 == IF mustClose THEN BumpClose(closeCalls, w0) ELSE closeCalls
        closeFailed == mustClose /\ ~io.close
        w1 == IF mustClose /\ io.close THEN 0 ELSE w0
        reopen1 == IF closeFailed THEN sReopen[h] ELSE FALSE
        mustOpen == MustOpen(closeFailed, w1)
        canOpen == io.open /\ nextRes <= MaxResources
        openFailed == mustOpen /\ ~canOpen
        w2 == IF mustOpen /\ canOpen THEN nextRes ELSE w1
        n2 == IF mustOpen /\ canOpen THEN nextRes + 1 ELSE nextRes
        writeFailed == ~closeFailed /\ ~openFailed /\ w2 # 0 /\ ~io.write
    IN  [writer |-> w2, reopen |-> reopen1, nextRes |-> n2, closeCalls |-> cc1,
         err |-> closeFailed \/ openFailed \/ writeFailed]

\* the stream left alone (Emit not invoked)
StreamSame(h) ==
    [writer |-> sWriter[h], reopen |-> sReopen[h], nextRes |-> nextRes,
     closeCalls |-> closeCalls, err |-> FALSE]

(* -------------------------- Worker.emit ------------------------------- *)
\* mutant: the minimum is excluded from the range
InRangeAboveMin(level, min, max) == (level > min) /\ (level <= max)

\* emit's filter: (record.Level.Value >= min) && (record.Level.Value <= max)
InRange(level, min, max) == (level >= min) /\ (level <= max)

\* mutant: an error ends the range loop
RestAfterEmitAbort(todo, h, err) == IF err THEN {} ELSE todo \ {h}

\* emit's range loop after handler h returned: the error is printed and the
\* loop goes on with the handlers left
RestAfterEmit(todo, h, err) == todo \ {h}

\* emit: logger.mutex.RLock() and the start of the range over
\* logger.handlers
TakeReadLock ==
    /\ wpc = "rlock"
    /\ lockW = "none"
    /\ wpc' = "visit"
    /\ wtodo' = lhandlers
    /\ wvisited' = {}
    /\ wgot' = {}
    /\ werr' = FALSE
    /\ UNCHANGED <<queue, flushChan, pending, nextId, enqueued, dispatched,
                   wmode, wcount, wflush, wrec, histVars, flushVars, lhandlers,
                   lockW, handlerVars, streamVars, closeVars, oldVars>>

\* emit: logger.mutex.RLock() (the fields set before it are the record's own)
EmitLock ==
    /\ TakeReadLock
    /\ UNCHANGED restVars

\* emit: one iteration of "for _, handler := range logger.handlers"
EmitVisit(h, io) ==
    /\ wpc = "visit"
    /\ h \in wtodo
    /\   LET min == hMin[h]
             max == hMax[h]
             inv == InRange(wrec.level, min, max)
             res == IF inv THEN StreamEmit(h, io) ELSE StreamSame(h)
         IN  /\ sWriter' = [sWriter EXCEPT ![h] = res.writer]
             /\ sReopen' = [sReopen EXCEPT ![h] = res.reopen]
             /\ nextRes' = res.nextRes
             /\ closeCalls' = res.closeCalls
             /\ wtodo' = RestAfterEmit(wtodo, h, res.err)
             /\ wvisited' = wvisited \cup {h}
             /\ wgot' = IF inv THEN wgot \cup {h} ELSE wgot
             /\ werr' = (werr \/ res.err)
             /\ lastVisit' = [id |-> wrec.id, handler |-> h, level |-> wrec.level,
                              min |-> min, max |-> max, disabled |-> hDisabled[h],
                              invoked |-> inv, err |-> res.err]
    /\ UNCHANGED <<queue, flushChan, pending, nextId, enqueued, dispatched, wpc,
                   wmode, wcount, wflush, wrec, errSeen, flushVars, lhandlers,
                   lockW, handlerVars, closeVars, oldVars, restVars>>

\* where the loop of run goes on after emit returned
AfterEmit(mode) ==
    CASE mode = "record" -> "select"
      [] mode = "flush" -> "drain"
      [] mode = "old" -> "oselect"
      [] OTHER -> "ofinal"

\* a loop that ends when an Emit of the record failed
LoopStopsOnError(mode, err) == IF err THEN "stopped" ELSE AfterEmit(mode)

\* run after emit: emit returns nothing, the loop goes on whatever the
\* handlers returned
LoopAfter(mode, err) == AfterEmit(mode)

\* emit returns (RUnlock); in a counted loop the counter is decremented
EmitReturn ==
    /\ wpc = "visit"
    /\ wtodo = {}
    /\ dispatched' = Note(dispatched, wrec.id)
    /\ lastVisit' = NoVisit
    /\ errSeen' = (errSeen \/ werr)
    /\ wrec' = NoRec
    /\ wpc' = LoopAfter(wmode, werr)
    /\ wcount' = IF wmode \in {"flush", "oldfinal"} THEN wcount - 1 ELSE wcount
    /\ UNCHANGED <<queue, flushChan, pending, nextId, enqueued, wmode, wflush,
                   wtodo, wvisited, wgot, werr, flushVars, lhandlers,
                   lockW, handlerVars, streamVars, closeVars, oldVars>>

EmitDone ==
    /\ EmitReturn
    /\ UNCHANGED restVars

\* the worker's steps that are no choice of the select
WorkerStep ==
    \/ WorkerFlushLen
    \/ WorkerDrainRecv
    \/ WorkerFlushDone
    \/ EmitLock
    \/ \E h \in HandlerNames, io \in IOOutcomes : EmitVisit(h, io)
    \/ EmitDone

(* ----------------- Spec: producers, Flush callers, worker -------------- *)
\* Two producers and two Flush callers against the worker; the handlers keep
\* their configuration and their I/O succeeds (SpecDispatch varies both).
Next ==
    \/ \E p \in Producers : LogMessage(p, InfoLevel)
    \/ \E p \in Producers : Send(p)
    \/ \E f \in Flushers : FlushCall(f)
    \/ \E f \in Flushers : FlushSend(f)
    \/ \E f \in Flushers : FlushReturn(f)
    \/ WorkerSelectFlush
    \/ WorkerSelectRecord
    \/ WorkerFlushLen
    \/ WorkerDrainRecv
    \/ WorkerFlushDone
    \/ EmitLock
    \/ \E h \in HandlerNames : EmitVisit(h, IOSucceeds)
    \/ EmitDone

Spec == Init /\ [][Next]_vars

(* ------- SpecLive: endless production, fair worker and callers -------- *)
\* Logger.logMessage up to the channel send, for a record the history does
\* not follow (id 0): producers can go on logging for ever
LogAnonymous(p) ==
    /\ pending[p] = NoRec
    /\ pending' = [pending EXCEPT ![p] = [id |-> 0, level |-> InfoLevel]]
    /\ UNCHANGED <<queue, flushChan, nextId, enqueued, dispatched, workerVars,
                   histVars, flushVars, lhandlers, lockW, handlerVars,
                   streamVars, closeVars, oldVars, restVars>>

NextLive ==
    \/ \E p \in Producers : LogAnonymous(p)
    \/ \E p \in Producers : Send(p)
    \/ \E f \in Flushers : FlushCall(f)
    \/ \E f \in Flushers : FlushSend(f)
    \/ \E f \in Flushers : FlushReturn(f)
    \/ WorkerSelectFlush
    \/ WorkerSelectRecord
    \/ WorkerStep

\* The worker goroutine always gets to run (WF on its steps; every Emit
\* returns, with or without an error); the select takes the flush case
\* again and again when it is ready again and again (SF: the runtime picks
\* among ready cases uniformly at random); a caller blocked sending its
\* wait group is served in turn (SF: blocked senders queue first-in
\* first-out on a channel) and returns from Wait once released (WF).
LiveFairness ==
    /\ WF_vars(WorkerStep)
    /\ SF_vars(WorkerSelectFlush)
    /\ \A f \in Flushers : SF_vars(FlushSend(f)) /\ WF_vars(FlushReturn(f))

SpecLive == Init /\ [][NextLive]_vars /\ LiveFairness

(* ------- SpecFailing: endless production against failing handlers ---- *)
\* the one Flush caller of SpecFailing
FailingFlushers == {"f1"}

NextFailing ==
    \/ \E p \in Producers : LogAnonymous(p)
    \/ \E p \in Producers : Send(p)
    \/ \E f \in FailingFlushers : FlushCall(f)
    \/ \E f \in FailingFlushers : FlushSend(f)
    \/ \E f \in FailingFlushers : FlushReturn(f)
    \/ WorkerSelectFlush
    \/ WorkerSelectRecord
    \/ WorkerStep

\* The worker goroutine always gets to run, and every Emit returns (WF on its
\* steps); the select proceeds when any of its cases is ready (WF on the two
\* together); a producer blocked on the full queue is served when room
\* appears again and again (SF: blocked senders queue first-in first-out).
SendFairness ==
    /\ WF_vars(WorkerStep)
    /\ WF_vars(WorkerSelectRecord \/ WorkerSelectFlush)
    /\ \A p \in Producers : SF_vars(Send(p))

SpecFailing == Init /\ [][NextFailing]_vars /\ SendFairness

(* ---- SpecDispatch: handler configuration and I/O change under emit ---- *)
\* a mutex that excludes nobody
LoggerLockAlwaysFree == TRUE

\* Logger.mutex is free for a writer: no writer holds it and the worker does
\* not hold it for reading (it does from emit's RLock to emit's return)
LoggerLockFree == lockW = "none" /\ wpc # "visit"

\* Stream.SetLevel, called on the handler: minimum and maximum both
SetLevel(h, level) ==
    /\ hMin' = [hMin EXCEPT ![h] = level]
    /\ hMax' = [hMax EXCEPT ![h] = level]
    /\ UNCHANGED <<queue, flushChan, pending, nextId, enqueued, dispatched,
                   workerVars, histVars, flushVars, lhandlers, lockW,
                   hDisabled, streamVars, closeVars, oldVars, restVars>>

\* Stream.Enable, called on the handler
Enable(h) ==
    /\ hDisabled' = [hDisabled EXCEPT ![h] = FALSE]
    /\ UNCHANGED <<queue, flushChan, pending, nextId, enqueued, dispatched,
                   workerVars, histVars, flushVars, lhandlers, lockW, hMin,
                   hMax, streamVars, closeVars, oldVars, restVars>>

\* Stream.Disable, called on the handler
Disable(h) ==
    /\ hDisabled' = [hDisabled EXCEPT ![h] = TRUE]
    /\ UNCHANGED <<queue, flushChan, pending, nextId, enqueued, dispatched,
                   workerVars, histVars, flushVars, lhandlers, lockW, hMin,
                   hMax, streamVars, closeVars, oldVars, restVars>>

\* Logger.Enable: under the write lock, Enable on every handler
LoggerEnable ==
    /\ LoggerLockFree
    /\ hDisabled' = [h \in HandlerNames |-> IF h \in lhandlers THEN FALSE ELSE hDisabled[h]]
    /\ UNCHANGED <<queue, flushChan, pending, nextId, enqueued, dispatched,
                   workerVars, histVars, flushVars, lhandlers, lockW, hMin,
                   hMax, streamVars, closeVars, oldVars, restVars>>

\* Logger.Disable: under the write lock, Disable on every handler
LoggerDisable ==
    /\ LoggerLockFree
    /\ hDisabled' = [h \in HandlerNames |-> IF h \in lhandlers THEN TRUE ELSE hDisabled[h]]
    /\ UNCHANGED <<queue, flushChan, pending, nextId, enqueued, dispatched,
                   workerVars, histVars, flushVars, lhandlers, lockW, hMin,
                   hMax, streamVars, closeVars, oldVars, restVars>>

NextDispatch ==
    \/ \E p \in DispatchProducers, lvl \in TestLevels : LogMessage(p, lvl)
    \/ \E p \in DispatchProducers : Send(p)
    \/ \E h \in HandlerNames, lvl \in TestLevels : SetLevel(h, lvl)
    \/ \E h \in HandlerNames : Enable(h)
    \/ \E h \in HandlerNames : Disable(h)
    \/ LoggerEnable
    \/ LoggerDisable
    \/ WorkerSelectRecord
    \/ EmitLock
    \/ \E h \in HandlerNames, io \in IOOutcomes : EmitVisit(h, io)
    \/ EmitDone

SpecDispatch == Init /\ [][NextDispatch]_vars

(* ------ SpecHandlers: the handler set changes while records flow ------ *)
\* the handlers of New, ResetHandlers and Reset ("stdout" and "stderr")
DefaultHandlers == HandlerNames

HandlersUnchanged ==
    UNCHANGED <<queue, flushChan, pending, nextId, enqueued, dispatched,
                workerVars, histVars, flushVars, lockW, nextRes, closeCalls,
                closeVars, oldVars, restVars>>

\* Logger.AddHandler, under the write lock: l.handlers[name] = handler
AddHandler(h) ==
    /\ LoggerLockFree
    /\ lhandlers' = lhandlers \cup {h}
    /\ UNCHANGED <<handlerVars, sWriter, sReopen>>
    /\ HandlersUnchanged

\* Logger.RemoveHandler, under the write lock: delete(l.handlers, name)
RemoveHandler(h) ==
    /\ LoggerLockFree
    /\ lhandlers' = lhandlers \ {h}
    /\ UNCHANGED <<handlerVars, sWriter, sReopen>>
    /\ HandlersUnchanged

\* Logger.RemoveHandlers, under the write lock: l.handlers = make(Handlers)
RemoveHandlers ==
    /\ LoggerLockFree
    /\ lhandlers' = {}
    /\ UNCHANGED <<handlerVars, sWriter, sReopen>>
    /\ HandlersUnchanged

\* Logger.SetHandlers, under the write lock: l.handlers = handlers
SetHandlers(hs) ==
    /\ LoggerLockFree
    /\ lhandlers' = hs
    /\ UNCHANGED <<handlerVars, sWriter, sReopen>>
    /\ HandlersUnchanged

\* Logger.ResetHandlers and Logger.Reset, under the write lock: the handler
\* set becomes the default one, made of new handler objects
ResetHandlers ==
    /\ LoggerLockFree
    /\ lhandlers' = DefaultHandlers
    /\ hMin' = [h \in HandlerNames |-> IF h \in DefaultHandlers THEN MinimumLevel ELSE hMin[h]]
    /\ hMax' = [h \in HandlerNames |-> IF h \in DefaultHandlers THEN MaximumLevel ELSE hMax[h]]
    /\ hDisabled' = [h \in HandlerNames |-> IF h \in DefaultHandlers THEN FALSE ELSE hDisabled[h]]
    /\ sWriter' = [h \in HandlerNames |-> IF h \in DefaultHandlers THEN 0 ELSE sWriter[h]]
    /\ sReopen' = [h \in HandlerNames |-> IF h \in DefaultHandlers THEN FALSE ELSE sReopen[h]]
    /\ HandlersUnchanged

NextHandlers ==
    \/ \E p \in DispatchProducers : LogMessage(p, InfoLevel)
    \/ \E p \in DispatchProducers : Send(p)
    \/ \E h \in HandlerNames : AddHandler(h)
    \/ \E h \in HandlerNames : RemoveHandler(h)
    \/ RemoveHandlers
    \/ \E hs \in SUBSET HandlerNames : SetHandlers(hs)
    \/ ResetHandlers
    \/ WorkerSelectRecord
    \/ EmitLock
    \/ \E h \in HandlerNames : EmitVisit(h, IOSucceeds)
    \/ EmitDone

SpecHandlers == Init /\ [][NextHandlers]_vars

(* ------ SpecConfig: the Logger's settings and the registries ---------- *)
ConfigUnchanged ==
    UNCHANGED <<queue, flushChan, pending, nextId, enqueued, dispatched,
                workerVars, histVars, flushVars, lockW, nextRes, closeCalls,
                closeVars, oldVars, notConfVars>>
HandlerSetUnchanged == UNCHANGED <<lhandlers, handlerVars, sWriter, sReopen>>

\* Logger.SetName
LoggerSetName(n) ==
    /\ LoggerLockFree
    /\ lname' = n
    /\ UNCHANGED <<lidGenerator, lerrorCode, gHandlerConstructors,
                   gIDGeneratorConstructors, lres>>
    /\ HandlerSetUnchanged
    /\ ConfigUnchanged

\* Logger.SetErrorCode
SetErrorCode(c) ==
    /\ LoggerLockFree
    /\ lerrorCode' = c
    /\ UNCHANGED <<lname, lidGenerator, gHandlerConstructors,
                   gIDGeneratorConstructors, lres>>
    /\ HandlerSetUnchanged
    /\ ConfigUnchanged

\* Logger.SetIDGenerator
SetIDGenerator(g) ==
    /\ LoggerLockFree
    /\ lidGenerator' = g
    /\ UNCHANGED <<lname, lerrorCode, gHandlerConstructors,
                   gIDGeneratorConstructors, lres>>
    /\ HandlerSetUnchanged
    /\ ConfigUnchanged

\* Logger.Reset, under the write lock: a new UUID4 generator, the default
\* error code, the default handler set made of new handler objects; l.name
\* is not assigned
LoggerReset ==
    /\ LoggerLockFree
    /\ lidGenerator' = DefaultIDGenerator
    /\ lerrorCode' = DefaultErrorCode
    /\ lhandlers' = DefaultHandlers
    /\ hMin' = [h \in HandlerNames |-> IF h \in DefaultHandlers THEN MinimumLevel ELSE hMin[h]]
    /\ hMax' = [h \in HandlerNames |-> IF h \in DefaultHandlers THEN MaximumLevel ELSE hMax[h]]
    /\ hDisabled' = [h \in HandlerNames |-> IF h \in DefaultHandlers THEN FALSE ELSE hDisabled[h]]
    /\ sWriter' = [h \in HandlerNames |-> IF h \in DefaultHandlers THEN 0 ELSE sWriter[h]]
    /\ sReopen' = [h \in HandlerNames |-> IF h \in DefaultHandlers THEN FALSE ELSE sReopen[h]]
    /\ UNCHANGED <<lname, gHandlerConstructors, gIDGeneratorConstructors, lres>>
    /\ ConfigUnchanged

\* the package function Reset: return Get().ResetHandlers()
PackageReset == ResetHandlers

\* RegisterHandler
RegisterHandler(n) ==
    /\ gHandlerConstructors' = gHandlerConstructors \cup {n}
    /\ UNCHANGED <<lname, lidGenerator, lerrorCode, gIDGeneratorConstructors, lres>>
    /\ HandlerSetUnchanged
    /\ ConfigUnchanged

\* RegisterIDGenerator
RegisterIDGenerator(n) ==
    /\ gIDGeneratorConstructors' = gIDGeneratorConstructors \cup {n}
    /\ UNCHANGED <<lname, lidGenerator, lerrorCode, gHandlerConstructors, lres>>
    /\ HandlerSetUnchanged
    /\ ConfigUnchanged

\* a lookup that takes whatever the map gives for the name
LookupUnchecked(names, n) == [obj |-> n, err |-> FALSE]

\* value, ok := map[name]: the object when the name is there, else no object
\* and a RuntimeError
Lookup(names, n) ==
    IF n \in names THEN [obj |-> n, err |-> FALSE] ELSE [obj |-> NoObject, err |-> TRUE]

Looked(op, names, n) ==
    [op |-> op, name |-> n, known |-> n \in names,
     obj |-> Lookup(names, n).obj, err |-> Lookup(names, n).err]

LookupUnchanged ==
    /\ UNCHANGED <<lname, lidGenerator, lerrorCode, gHandlerConstructors,
                   gIDGeneratorConstructors>>
    /\ HandlerSetUnchanged
    /\ ConfigUnchanged

\* CreateHandler
CreateHandler(n) ==
    /\ lres' = Looked("CreateHandler", gHandlerConstructors, n)
    /\ LookupUnchanged

\* CreateIDGenerator
CreateIDGenerator(n) ==
    /\ lres' = Looked("CreateIDGenerator", gIDGeneratorConstructors, n)
    /\ LookupUnchanged

\* Logger.GetHandler, under the read lock
GetHandler(n) ==
    /\ LoggerLockFree
    /\ lres' = Looked("GetHandler", lhandlers, n)
    /\ LookupUnchanged

HandlerLookupNames == {"stdout", CustomName}
GeneratorLookupNames == {DefaultIDGenerator, CustomName}
LoggerLookupNames == HandlerNames \cup {CustomName}

NextConfig ==
    \/ \E n \in LoggerNames : LoggerSetName(n)
    \/ \E c \in ErrorCodes : SetErrorCode(c)
    \/ \E g \in GeneratorLookupNames : SetIDGenerator(g)
    \/ \E h \in HandlerNames : AddHandler(h)
    \/ \E h \in HandlerNames : RemoveHandler(h)
    \/ LoggerReset
    \/ PackageReset
    \/ RegisterHandler(CustomName)
    \/ RegisterIDGenerator(CustomName)
    \/ \E n \in HandlerLookupNames : CreateHandler(n)
    \/ \E n \in GeneratorLookupNames : CreateIDGenerator(n)
    \/ \E n \in LoggerLookupNames : GetHandler(n)

SpecConfig == Init /\ [][NextConfig]_vars

(* ------ SpecCaller: the call site a leveled call records -------------- *)
\* the public leveled functions, of the Logger and of the package
LeveledNames == {"Trace", "Debug", "Info", "Notice", "Warning", "Error",
                 "Critical", "Alert", "Fatal", "Panic", "Log"}

\* the caller's own frames: one function, or a helper called by another
UserFunctions == {"main.run", "main.helper"}
UserFrame(fn) == [kind |-> "user", fn |-> fn]
UserStacks ==
    {<<UserFrame(a)>> : a \in UserFunctions}
        \cup {<<UserFrame(a), UserFrame(b)>> : a, b \in UserFunctions}

CallerUnchanged == UNCHANGED <<baseVars, notCallVars>>

\* the caller calls a leveled method of a Logger: l.Info(...)
CallMethod(us, f) ==
    /\ stack = <<>>
    /\ stack' = Append(us, [kind |-> "method", fn |-> f])
    /\ csource' = NoFrame
    /\ cskip' = 0
    /\ CallerUnchanged

\* the caller calls a leveled function of the package: logger.Info(...)
CallPackage(us, f) ==
    /\ stack = <<>>
    /\ stack' = Append(us, [kind |-> "package", fn |-> f])
    /\ csource' = NoFrame
    /\ cskip' = 0
    /\ CallerUnchanged

\* Logger.Info: l.logMessage(InfoLevel, InfoName, message, arguments...)
MethodCallsLogMessage ==
    /\ stack # <<>>
    /\ stack[Len(stack)].kind = "method"
    /\ stack' = Append(stack, [kind |-> "logMessage", fn |-> "logMessage"])
    /\ UNCHANGED <<csource, cskip>>
    /\ CallerUnchanged

\* Info: Get().LogMessage(InfoLevel, InfoName, message, arguments...)
PackageCallsLogMessage ==
    /\ stack # <<>>
    /\ stack[Len(stack)].kind = "package"
    /\ stack' = Append(stack, [kind |-> "LogMessage", fn |-> "LogMessage"])
    /\ UNCHANGED <<csource, cskip>>
    /\ CallerUnchanged

\* a capture that counts the frame of the function itself as frame 1
CallerFromOne(frames, skip) == frames[Len(frames) - skip + 1]

\* runtime.Caller(skip): frame 0 is the function that calls runtime.Caller
Caller(frames, skip) == frames[Len(frames) - skip]

\* Logger.logMessage: pc, path, line, _ := runtime.Caller(loggerSkipCall)
LogMessageCaptures ==
    /\ stack # <<>>
    /\ stack[Len(stack)].kind = "logMessage"
    /\ csource = NoFrame
    /\ csource' = Caller(stack, loggerSkipCall)
    /\ cskip' = loggerSkipCall
    /\ UNCHANGED stack
    /\ CallerUnchanged

\* Logger.LogMessage, the exported method the package functions call: the
\* call site is captured at the same fixed depth from the public function
ExportedLogMessageCaptures ==
    /\ stack # <<>>
    /\ stack[Len(stack)].kind = "LogMessage"
    /\ csource = NoFrame
    /\ csource' = Caller(stack, loggerSkipCall)
    /\ cskip' = loggerSkipCall
    /\ UNCHANGED stack
    /\ CallerUnchanged

\* the record is sent and the calls return
LogReturns ==
    /\ csource # NoFrame
    /\ stack' = <<>>
    /\ UNCHANGED <<csource, cskip>>
    /\ CallerUnchanged

NextCaller ==
    \/ \E us \in UserStacks, f \in LeveledNames : CallMethod(us, f)
    \/ \E us \in UserStacks, f \in LeveledNames : CallPackage(us, f)
    \/ MethodCallsLogMessage
    \/ PackageCallsLogMessage
    \/ LogMessageCaptures
    \/ ExportedLogMessageCaptures
    \/ LogReturns

SpecCaller == Init /\ [][NextCaller]_vars

(* ------ SpecOld: the worker with a stop signal and close() ----------- *)
\* capacity of worker.signals
SignalsLength == 1

InitOld == InitCommon /\ wpc = "oselect"

OldUnchanged ==
    UNCHANGED <<flushChan, nextId, enqueued, dispatched, histVars, flushVars,
                lhandlers, lockW, handlerVars, streamVars, closeVars, restVars>>

\* one of gWorkerSignals is delivered: signal.Notify's channel takes it when
\* it has room and drops it otherwise
Signal ==
    /\ signals < SignalsLength
    /\ signals' = signals + 1
    /\ UNCHANGED <<queue, pending, workerVars, chClosed, isQueueClosed,
                   wgDone, panicked, kpc, ksnap>>
    /\ OldUnchanged

\* worker.run: case <-worker.signals: running = false
OldSelectSignal ==
    /\ wpc = "oselect"
    /\ signals > 0
    /\ signals' = signals - 1
    /\ wpc' = "ofinalLen"
    /\ UNCHANGED <<queue, pending, wmode, wcount, wflush, wrec, wtodo,
                   wvisited, wgot, werr, chClosed, isQueueClosed, wgDone,
                   panicked, kpc, ksnap>>
    /\ OldUnchanged

\* worker.run: case record, running = <-worker.records, with a record
OldSelectRecord ==
    /\ wpc = "oselect"
    /\ queue # <<>>
    /\ wrec' = Head(queue)
    /\ queue' = Tail(queue)
    /\ wmode' = "old"
    /\ wpc' = "rlock"
    /\ UNCHANGED <<pending, wcount, wflush, wtodo, wvisited, wgot, werr,
                   oldVars, restVars>>
    /\ OldUnchanged

\* worker.run: case record, running = <-worker.records on the closed and
\* empty queue: record is nil, running is false
OldSelectClosed ==
    /\ wpc = "oselect"
    /\ queue = <<>>
    /\ chClosed
    /\ wpc' = "ofinalLen"
    /\ UNCHANGED <<queue, pending, wmode, wcount, wflush, wrec, wtodo,
                   wvisited, wgot, werr, oldVars, restVars>>
    /\ OldUnchanged

\* worker.run: records := len(worker.records)
OldFinalLen ==
    /\ wpc = "ofinalLen"
    /\ wcount' = Len(queue)
    /\ wpc' = "ofinal"
    /\ UNCHANGED <<queue, pending, wmode, wflush, wrec, wtodo, wvisited,
                   wgot, werr, oldVars, restVars>>
    /\ OldUnchanged

\* worker.run, final loop: record = <-worker.records
OldFinalRecv ==
    /\ wpc = "ofinal"
    /\ wcount > 0
    /\ queue # <<>>
    /\ wrec' = Head(queue)
    /\ queue' = Tail(queue)
    /\ wmode' = "oldfinal"
    /\ wpc' = "rlock"
    /\ UNCHANGED <<pending, wcount, wflush, wtodo, wvisited, wgot, werr,
                   oldVars, restVars>>
    /\ OldUnchanged

\* worker.run: the final loop is over; worker.waitGroup.Done()
OldFinalDone ==
    /\ wpc = "ofinal"
    /\ wcount <= 0
    /\ wgDone' = TRUE
    /\ wpc' = "exited"
    /\ UNCHANGED <<queue, pending, wmode, wcount, wflush, wrec, wtodo,
                   wvisited, wgot, werr, chClosed, isQueueClosed, signals,
                   panicked, kpc, ksnap>>
    /\ OldUnchanged

\* logMessage: the send finds the queue closed and panics
SendPanic(p) ==
    /\ pending[p] # NoRec
    /\ chClosed
    /\ panicked' = panicked \cup {p}
    /\ pending' = [pending EXCEPT ![p] = NoRec]
    /\ UNCHANGED <<queue, workerVars, chClosed, isQueueClosed, signals,
                   wgDone, kpc, ksnap>>
    /\ OldUnchanged

\* worker.close is called
CloseWorkerCall(k) ==
    /\ kpc[k] \in {"idle", "returned"}
    /\ kpc' = [kpc EXCEPT ![k] = "closeQueue"]
    /\ ksnap' = [ksnap EXCEPT ![k] = Len(enqueued)]
    /\ UNCHANGED <<queue, pending, workerVars, chClosed, isQueueClosed,
                   signals, wgDone, panicked>>
    /\ OldUnchanged

\* worker.closeQueue, under gMutex (which Logger.emit holds for reading)
CloseQueue(k) ==
    /\ kpc[k] = "closeQueue"
    /\ LoggerLockFree
    /\ chClosed' = (IF ~isQueueClosed THEN TRUE ELSE chClosed)
    /\ isQueueClosed' = TRUE
    /\ kpc' = [kpc EXCEPT ![k] = "wait"]
    /\ UNCHANGED <<queue, pending, workerVars, signals, wgDone, panicked,
                   ksnap>>
    /\ OldUnchanged

\* worker.close: worker.waitGroup.Wait() returns
CloseWait(k) ==
    /\ kpc[k] = "wait"
    /\ wgDone
    /\ kpc' = [kpc EXCEPT ![k] = "returned"]
    /\ UNCHANGED <<queue, pending, workerVars, chClosed, isQueueClosed,
                   signals, wgDone, panicked, ksnap>>
    /\ OldUnchanged

NextOld ==
    \/ \E p \in Producers : LogMessage(p, InfoLevel)
    \/ \E p \in Producers : Send(p)
    \/ \E p \in Producers : SendPanic(p)
    \/ Signal
    \/ OldSelectSignal
    \/ OldSelectRecord
    \/ OldSelectClosed
    \/ OldFinalLen
    \/ OldFinalRecv
    \/ OldFinalDone
    \/ EmitLock
    \/ \E h \in HandlerNames : EmitVisit(h, IOSucceeds)
    \/ EmitDone
    \/ \E k \in Closers : CloseWorkerCall(k)
    \/ \E k \in Closers : CloseQueue(k)
    \/ \E k \in Closers : CloseWait(k)

SpecOld == InitOld /\ [][NextOld]_vars

(* ------ SpecClose: Logger.Close, twice, over the stream handlers ------ *)
\* Stream.Close: the stream's writer after the call, the calls of the
\* resources' Close so far, and whether Close returned an error
StreamClose(h, io) ==
    LET w0 == sWriter[h]
    IN  IF w0 # 0
        THEN [writer |-> IF io.close THEN 0 ELSE w0,
              closeCalls |-> BumpClose(closeCalls, w0),
              err |-> ~io.close]
        ELSE [writer |-> w0, closeCalls |-> closeCalls, err |-> FALSE]

\* Logger.Close is called: GetWorker().Flush() makes its wait group
CloseCall(c) ==
    /\ cpc[c] \in {"idle", "returned"}
    /\ Len(cresults[c]) < MaxCloses
    /\ cpc' = [cpc EXCEPT ![c] = "send"]
    /\ fdone' = [fdone EXCEPT ![c] = FALSE]
    /\ UNCHANGED <<queue, flushChan, pending, nextId, enqueued, dispatched,
                   workerVars, histVars, fpc, fsnap, lhandlers, lockW,
                   handlerVars, streamVars, ctodo, cerr, cresults, clog,
                   oldVars, restVars>>

\* Logger.Close, in Flush: w.flush <- flush
CloseFlushSend(c) ==
    /\ cpc[c] = "send"
    /\ ChanCanSend(flushChan, FlushLength)
    /\ flushChan' = Append(flushChan, c)
    /\ cpc' = [cpc EXCEPT ![c] = "wait"]
    /\ UNCHANGED <<queue, pending, nextId, enqueued, dispatched, workerVars,
                   histVars, flushVars, lhandlers, lockW, handlerVars,
                   streamVars, ctodo, cerr, cresults, clog, oldVars, restVars>>

\* Logger.Close: Flush returned; l.mutex.Lock(); var err error
CloseLock(c) ==
    /\ cpc[c] = "wait"
    /\ fdone[c]
    /\ LoggerLockFree
    /\ lockW' = c
    /\ ctodo' = [ctodo EXCEPT ![c] = lhandlers]
    /\ cerr' = [cerr EXCEPT ![c] = NoError]
    /\ cpc' = [cpc EXCEPT ![c] = "closing"]
    /\ clog' = [clog EXCEPT ![c] = <<>>]
    /\ UNCHANGED <<queue, flushChan, pending, nextId, enqueued, dispatched,
                   workerVars, histVars, flushVars, lhandlers, handlerVars,
                   streamVars, cresults, oldVars, restVars>>

\* a Close that keeps the first error it met
FirstCloseError(err, h, failed) == IF failed /\ err = NoError THEN h ELSE err

\* Logger.Close: "if handlerError != nil { err = NewRuntimeError(...) }"
LastCloseError(err, h, failed) == IF failed THEN h ELSE err

\* Logger.Close: one iteration of "for _, handler := range l.handlers"
CloseHandler(c, h, io) ==
    /\ cpc[c] = "closing"
    /\ h \in ctodo[c]
    /\ LET res == StreamClose(h, io)
       IN  /\ sWriter' = [sWriter EXCEPT ![h] = res.writer]
           /\ closeCalls' = res.closeCalls
           /\ cerr' = [cerr EXCEPT ![c] = LastCloseError(@, h, res.err)]
           /\ clog' = [clog EXCEPT ![c] = Append(@, [handler |-> h, err |-> res.err])]
    /\ ctodo' = [ctodo EXCEPT ![c] = @ \ {h}]
    /\ UNCHANGED <<queue, flushChan, pending, nextId, enqueued, dispatched,
                   workerVars, histVars, flushVars, lhandlers, lockW,
                   handlerVars, sReopen, nextRes, cpc, cresults, oldVars, restVars>>

\* Logger.Close: the loop is over; Unlock; return err
CloseReturn(c) ==
    /\ cpc[c] = "closing"
    /\ ctodo[c] = {}
    /\ lockW' = "none"
    /\ cresults' = [cresults EXCEPT ![c] = Append(@, [err |-> cerr[c], opened |-> nextRes])]
    /\ cpc' = [cpc EXCEPT ![c] = "returned"]
    /\ UNCHANGED <<queue, flushChan, pending, nextId, enqueued, dispatched,
                   workerVars, histVars, flushVars, lhandlers, handlerVars,
                   streamVars, ctodo, cerr, clog, oldVars, restVars>>

\* the steps of one Logger.Close call after it was made
CloserStep(c) ==
    \/ CloseFlushSend(c)
    \/ CloseLock(c)
    \/ \E h \in HandlerNames, io \in IOOutcomes : CloseHandler(c, h, io)
    \/ CloseReturn(c)

NextClose ==
    \/ \E p \in DispatchProducers : LogMessage(p, InfoLevel)
    \/ \E p \in DispatchProducers : Send(p)
    \/ \E c \in Closers : CloseCall(c)
    \/ \E c \in Closers : CloseFlushSend(c)
    \/ \E c \in Closers : CloseLock(c)
    \/ \E c \in Closers, h \in HandlerNames, io \in IOOutcomes : CloseHandler(c, h, io)
    \/ \E c \in Closers : CloseReturn(c)
    \/ WorkerSelectFlush
    \/ WorkerSelectRecord
    \/ WorkerFlushLen
    \/ WorkerDrainRecv
    \/ WorkerFlushDone
    \/ EmitLock
    \/ \E h \in HandlerNames, io \in IOOutcomes : EmitVisit(h, io)
    \/ EmitDone

SpecClose == Init /\ [][NextClose]_vars

(* ------ SpecFatal: Logger.Fatal and Logger.Panic ----------------------- *)
\* the Logger Fatal is called on is gInstance or another instance
InitFatal == InitBase /\ wpc = "select" /\ tdefault \in BOOLEAN /\ FormatIdle

FatalKinds == {"Fatal", "Panic"}
LevelOf(kind) == IF kind = "Fatal" THEN FatalLevel ELSE PanicLevel

\* Logger.Fatal / Logger.Panic: l.logMessage builds the record
FatalLog(t, kind) ==
    /\ tpc[t] = "idle"
    /\ nextId <= MaxRecords
    /\ pending' = [pending EXCEPT ![t] = [id |-> nextId, level |-> LevelOf(kind)]]
    /\ nextId' = nextId + 1
    /\ tpc' = [tpc EXCEPT ![t] = "send"]
    /\ tkind' = [tkind EXCEPT ![t] = kind]
    /\ tid' = [tid EXCEPT ![t] = nextId]
    /\ \E m \in FatalMessages : tmessage' = [tmessage EXCEPT ![t] = m]
    /\ UNCHANGED <<queue, flushChan, enqueued, dispatched, workerVars, histVars,
                   flushVars, lhandlers, lockW, handlerVars, streamVars,
                   closeVars, oldVars, tdefault, traised, notFatalVars>>

\* l.logMessage: GetWorker().records <- record
FatalSend(t) ==
    /\ tpc[t] = "send"
    /\ ChanCanSend(queue, QueueLength)
    /\ queue' = ChanSend(queue, pending[t])
    /\ enqueued' = Note(enqueued, pending[t].id)
    /\ pending' = [pending EXCEPT ![t] = NoRec]
    /\ tpc' = [tpc EXCEPT ![t] = "close"]
    /\ UNCHANGED <<flushChan, nextId, dispatched, workerVars, histVars,
                   flushVars, lhandlers, lockW, handlerVars, streamVars,
                   closeVars, oldVars, tkind, tid, tdefault, tmessage, traised,
                   notFatalVars>>

\* Logger.Fatal / Logger.Panic: Close(), which is Get().Close(), begins
FatalClose(t, c) ==
    /\ tpc[t] = "close"
    /\ cpc[c] = "idle"
    /\ cpc' = [cpc EXCEPT ![c] = "send"]
    /\ fdone' = [fdone EXCEPT ![c] = FALSE]
    /\ tpc' = [tpc EXCEPT ![t] = "closing"]
    /\ UNCHANGED <<queue, flushChan, pending, nextId, enqueued, dispatched,
                   workerVars, histVars, fpc, fsnap, lhandlers, lockW,
                   handlerVars, streamVars, ctodo, cerr, cresults, clog,
                   oldVars, tkind, tid, tdefault, tmessage, traised, notFatalVars>>

\* Get().Close() when Get() is another Logger than the one of the model: after
\* the flush it locks that Logger and closes that Logger's handlers
CloseOtherLogger(c) ==
    /\ ~tdefault
    /\ cpc[c] = "wait"
    /\ fdone[c]
    /\ cresults' = [cresults EXCEPT ![c] = Append(@, [err |-> NoError, opened |-> nextRes])]
    /\ clog' = [clog EXCEPT ![c] = <<>>]
    /\ cpc' = [cpc EXCEPT ![c] = "returned"]
    /\ UNCHANGED <<queue, flushChan, pending, nextId, enqueued, dispatched,
                   workerVars, histVars, flushVars, lhandlers, lockW,
                   handlerVars, streamVars, ctodo, cerr, oldVars, restVars>>

\* panic(NewRuntimeError("Panic error", nil)): the message of the value raised
PanicValue(message) == "Panic error"

\* Logger.Fatal: os.Exit(l.errorCode); Logger.Panic: panic(...)
FatalExit(t, c) ==
    /\ tpc[t] = "closing"
    /\ cpc[c] = "returned"
    /\ tpc' = [tpc EXCEPT ![t] = IF tkind[t] = "Fatal" THEN "exited" ELSE "panicked"]
    /\ traised' = [traised EXCEPT ![t] = IF tkind[t] = "Fatal" THEN @ ELSE PanicValue(tmessage[t])]
    /\ UNCHANGED <<queue, flushChan, pending, nextId, enqueued, dispatched,
                   workerVars, histVars, flushVars, lhandlers, lockW,
                   handlerVars, streamVars, closeVars, oldVars, tkind, tid,
                   tdefault, tmessage, notFatalVars>>

\* os.Exit ended the process: nothing moves any more
Running == \A t \in FatalCallers : tpc[t] # "exited"

NextFatal ==
    \/ Running /\ \E p \in DispatchProducers : LogMessage(p, InfoLevel)
    \/ Running /\ \E p \in DispatchProducers : Send(p)
    \/ Running /\ \E t \in FatalCallers, kind \in FatalKinds : FatalLog(t, kind)
    \/ Running /\ \E t \in FatalCallers : FatalSend(t)
    \/ Running /\ \E t \in FatalCallers, c \in Closers : FatalClose(t, c)
    \/ Running /\ \E c \in Closers : CloseFlushSend(c)
    \/ Running /\ \E c \in Closers : tdefault /\ CloseLock(c)
    \/ Running /\ \E c \in Closers, h \in HandlerNames, io \in IOOutcomes : CloseHandler(c, h, io)
    \/ Running /\ \E c \in Closers : CloseReturn(c)
    \/ Running /\ \E c \in Closers : CloseOtherLogger(c)
    \/ Running /\ \E t \in FatalCallers, c \in Closers : FatalExit(t, c)
    \/ Running /\ WorkerSelectFlush
    \/ Running /\ WorkerSelectRecord
    \/ Running /\ WorkerFlushLen
    \/ Running /\ WorkerDrainRecv
    \/ Running /\ WorkerFlushDone
    \/ Running /\ EmitLock
    \/ Running /\ \E h \in HandlerNames : EmitVisit(h, IOSucceeds)
    \/ Running /\ EmitDone

SpecFatal == InitFatal /\ [][NextFatal]_vars

(* ------ SpecOnce: concurrent first calls of GetWorker and Get --------- *)
\* a Once whose callers all run the function until one has finished it
OnceOpenUntilDone(state) == state # "done"

\* sync.Once.Do runs the function for the caller that finds the Once new,
\* under the Once's mutex
OnceRuns(state) == state = "new"

OnceUnchanged == UNCHANGED <<baseVars, notOnceVars>>

\* GetWorker / Get: gWorkerOnce.Do / gOnce.Do is entered. The caller runs the
\* function, or waits for the caller that runs it, or finds the Once done.
OnceDo(c, k) ==
    /\ gpc[c] \in {"idle", "returned"}
    /\ gwhich' = [gwhich EXCEPT ![c] = k]
    /\ IF OnceRuns(once[k])
       THEN /\ once' = [once EXCEPT ![k] = "running"]
            /\ gpc' = [gpc EXCEPT ![c] = "new"]
       ELSE /\ once' = once
            /\ gpc' = [gpc EXCEPT ![c] = IF once[k] = "done" THEN "read" ELSE "wait"]
    /\ UNCHANGED <<instance, made, loops, gtmp, gret>>
    /\ OnceUnchanged

\* Do's function: NewWorker builds the Worker; New builds the Logger
NewInstance(c) ==
    /\ gpc[c] = "new"
    /\ made' = [made EXCEPT ![gwhich[c]] = @ + 1]
    /\ gtmp' = [gtmp EXCEPT ![c] = made[gwhich[c]] + 1]
    /\ gpc' = [gpc EXCEPT ![c] = IF gwhich[c] = "GetWorker" THEN "go" ELSE "assign"]
    /\ UNCHANGED <<once, instance, loops, gwhich, gret>>
    /\ OnceUnchanged

\* NewWorker: go worker.run()
GoRun(c) ==
    /\ gpc[c] = "go"
    /\ loops' = loops + 1
    /\ gpc' = [gpc EXCEPT ![c] = "assign"]
    /\ UNCHANGED <<once, instance, made, gwhich, gtmp, gret>>
    /\ OnceUnchanged

\* Do's function: gWorkerInstance = NewWorker() / gInstance = New()
AssignInstance(c) ==
    /\ gpc[c] = "assign"
    /\ instance' = [instance EXCEPT ![gwhich[c]] = gtmp[c]]
    /\ gpc' = [gpc EXCEPT ![c] = "unlock"]
    /\ UNCHANGED <<once, made, loops, gwhich, gtmp, gret>>
    /\ OnceUnchanged

\* Do: the function returned; done is stored and the mutex released
OnceDone(c) ==
    /\ gpc[c] = "unlock"
    /\ once' = [once EXCEPT ![gwhich[c]] = "done"]
    /\ gpc' = [gpc EXCEPT ![c] = "read"]
    /\ UNCHANGED <<instance, made, loops, gwhich, gtmp, gret>>
    /\ OnceUnchanged

\* Do: a caller that waited on the mutex gets it and finds done stored
OnceWake(c) ==
    /\ gpc[c] = "wait"
    /\ once[gwhich[c]] = "done"
    /\ gpc' = [gpc EXCEPT ![c] = "read"]
    /\ UNCHANGED <<once, instance, made, loops, gwhich, gtmp, gret>>
    /\ OnceUnchanged

\* GetWorker / Get: return gWorkerInstance / return gInstance
GetReturn(c) ==
    /\ gpc[c] = "read"
    /\ gret' = [gret EXCEPT ![c] = instance[gwhich[c]]]
    /\ gpc' = [gpc EXCEPT ![c] = "returned"]
    /\ UNCHANGED <<once, instance, made, loops, gwhich, gtmp>>
    /\ OnceUnchanged

NextOnce ==
    \/ \E c \in OnceCallers, k \in Getters : OnceDo(c, k)
    \/ \E c \in OnceCallers : NewInstance(c)
    \/ \E c \in OnceCallers : GoRun(c)
    \/ \E c \in OnceCallers : AssignInstance(c)
    \/ \E c \in OnceCallers : OnceDone(c)
    \/ \E c \in OnceCallers : OnceWake(c)
    \/ \E c \in OnceCallers : GetReturn(c)

SpecOnce == Init /\ [][NextOnce]_vars

(* ------ SpecFile: a File handler's target changes between emits ------- *)
\* a setter that never asks for a reopen
ReopenNever(old, new, reopen) == reopen

\* File.SetName: "if f.name != name { f.name = name; f.stream.Reopen() }"
ReopenOnChange(old, new, reopen) == IF old # new THEN TRUE ELSE reopen

FileUnchanged ==
    UNCHANGED <<queue, flushChan, pending, nextId, enqueued, dispatched,
                workerVars, histVars, flushVars, lhandlers, lockW, handlerVars,
                closeVars, oldVars, notFileVars>>

\* File.SetName (SetFlags and SetMode are the same code on another field),
\* under the stream's lock
FileSetName(h, name) ==
    /\ fName' = [fName EXCEPT ![h] = name]
    /\ sReopen' = [sReopen EXCEPT ![h] = ReopenOnChange(fName[h], name, @)]
    /\ stale' = IF fName[h] # name /\ sWriter[h] # 0 THEN stale \cup {sWriter[h]} ELSE stale
    /\ UNCHANGED <<sWriter, nextRes, closeCalls>>
    /\ FileUnchanged

\* File.Close, which is Stream.Close, called on the handler
FileClose(h, io) ==
    /\ LET res == StreamClose(h, io)
       IN  /\ sWriter' = [sWriter EXCEPT ![h] = res.writer]
           /\ closeCalls' = res.closeCalls
    /\ UNCHANGED <<sReopen, nextRes, fName, stale>>
    /\ FileUnchanged

\* the handler whose target the callers of SpecFile change and which they
\* close; the other one is only emitted to
FileHandlers == {"h1"}
\* what the environment does to a Close
CloseOutcomes == {io \in IOOutcomes : io.open /\ io.write}

NextFile ==
    \/ \E p \in DispatchProducers : LogMessage(p, InfoLevel)
    \/ \E p \in DispatchProducers : Send(p)
    \/ \E h \in FileHandlers, name \in FileNames : FileSetName(h, name)
    \/ \E h \in FileHandlers, io \in CloseOutcomes : FileClose(h, io)
    \/ WorkerSelectRecord
    \/ EmitLock
    \/ \E h \in HandlerNames, io \in IOOutcomes : EmitVisit(h, io)
    \/ EmitDone

SpecFile == Init /\ [][NextFile]_vars

(* ------ SpecFormat: Formatter.FormatMessage on one record ------------- *)
\* A message is a sequence of tokens: literal text, the automatic placeholder
\* {p}, a positional placeholder {pN}, a placeholder that calls a key of a
\* named bundle (kind "name"), a placeholder that calls the function a caller
\* may add with AddFuncs (kind "func"), or text that is no valid template
\* ("bad", such as an unclosed brace).
Tokens ==
    {[kind |-> k, n |-> 0] : k \in {"text", "auto", "name", "func", "bad"}}
        \cup {[kind |-> "pos", n |-> i] : i \in 0..MaxArgs}

\* An argument is a scalar whose default string form is not empty ("text") or
\* is empty ("empty"), a bundle of named values ("named": a map with string
\* keys, all bundles of a record holding the one key the tokens of kind
\* "name" call), or a struct.
ArgKinds == {"text", "empty", "named", "struct"}

SeqsUpTo(S, n) == UNION {[1..k -> S] : k \in 0..n}
Templates == SeqsUpTo(Tokens, MaxTokens)
ArgumentLists == SeqsUpTo(ArgKinds, MaxArgs)

\* the default string form (fmt.Sprint, also what the template prints) of the
\* argument at a position, positions counted from 0 as in the program
Value(args, pos) == [kind |-> "value", n |-> pos, empty |-> args[pos + 1] = "empty"]
NoValue == [kind |-> "novalue", n |-> 0]
KeyValue(pos) == [kind |-> "keyvalue", n |-> pos]
Space == [kind |-> "space", n |-> 0]

\* message != "": some piece of the text has a character
ItemIsEmpty(item) == item.kind = "value" /\ item.empty
IsEmptyText(text) == \A i \in DOMAIN text : ItemIsEmpty(text[i])

\* position of the bundle whose key is in funcMap: the last one wins
BundlePositions(args) == {i \in 0..(Len(args) - 1) : args[i + 1] = "named"}
LastBundle(args) == CHOOSE i \in BundlePositions(args) : \A j \in BundlePositions(args) : j <= i

\* templ.Parse: the text is a template and every function it calls is in
\* funcMap (p, p0 .. p(n-1), the keys of the bundles). The template is a new
\* one, template.New(""), with the functions of the record and funcMap: what
\* AddFuncs gave to Formatter.template is not among them.
Parses(msg, args) ==
    \A i \in DOMAIN msg :
        /\ msg[i].kind # "bad"
        /\ msg[i].kind # "func"
        /\ msg[i].kind = "pos" => msg[i].n < Len(args)
        /\ msg[i].kind = "name" => BundlePositions(args) # {}

\* a bundle whose key is called would mark every position
KeyMarksAll(args) == 0..(Len(args) - 1)

\* argumentValue(position, value of the key): calling a key of a bundle marks
\* the position of that bundle
KeyMarks(args) == {LastBundle(args)}

\* templ.Execute from token k on: argumentValue and argumentAutomatic mark
\* f.usedArguments as the placeholders are evaluated
RECURSIVE Execute(_, _, _, _)
Execute(msg, args, k, st) ==
    IF k > Len(msg) THEN st
    ELSE LET t == msg[k]
             next ==
                 CASE t.kind = "text" ->
                        [st EXCEPT !.out = Append(@, t)]
                   [] t.kind = "auto" ->
                        IF st.position < Len(args)
                        THEN [out |-> Append(st.out, Value(args, st.position)),
                              used |-> st.used \cup {st.position},
                              position |-> st.position + 1]
                        ELSE [st EXCEPT !.out = Append(@, NoValue)]
                   [] t.kind = "pos" ->
                        [st EXCEPT !.out = Append(@, Value(args, t.n)),
                                   !.used = @ \cup {t.n}]
                   [] OTHER ->
                        [st EXCEPT !.out = Append(@, KeyValue(LastBundle(args))),
                                   !.used = @ \cup KeyMarks(args)]
         IN  Execute(msg, args, k + 1, next)

\* buffer.Reset()
BufferReset(buffer) == <<>>

\* Formatter.formatString with the message as format, from the marks and the
\* buffer the Formatter holds
FormatString(msg, args, used, buffer) ==
    IF msg = <<>> THEN [out |-> <<>>, used |-> used, buffer |-> buffer, err |-> FALSE]
    ELSE IF ~Parses(msg, args)
         THEN [out |-> <<>>, used |-> used, buffer |-> buffer, err |-> TRUE]
    ELSE LET st == Execute(msg, args, 1,
                           [out |-> BufferReset(buffer), used |-> used, position |-> 0])
         IN  [out |-> st.out, used |-> st.used, buffer |-> st.out, err |-> FALSE]

\* an argument counts as used only when a placeholder took it
IsArgumentReferenced(args, used, pos) == pos \in used

\* Formatter.isArgumentUsed
IsArgumentUsed(args, used, pos) ==
    IF args[pos + 1] \in {"named", "struct"} THEN TRUE ELSE pos \in used

\* formatMessageRecord: the loop that appends, from position pos on
RECURSIVE AppendUnused(_, _, _, _)
AppendUnused(message, args, used, pos) ==
    IF pos >= Len(args) THEN message
    ELSE IF IsArgumentUsed(args, used, pos)
         THEN AppendUnused(message, args, used, pos + 1)
         ELSE LET spaced == IF ~IsEmptyText(message) THEN Append(message, Space) ELSE message
              IN  AppendUnused(Append(spaced, Value(args, pos)), args, used, pos + 1)

\* a formatter that sends every message through the template
NeverShortCircuits(args) == FALSE

\* formatMessageRecord: len(record.Arguments) == 0
HasNoArguments(args) == Len(args) = 0

\* a formatter that keeps the marks of the call before
MarksKept(used) == used

\* f.usedArguments = make(map[int]bool)
MarksCleared(used) == {}

\* Formatter.formatMessageRecord: what it returns, and the marks and the
\* buffer it leaves in the Formatter
FormatMessageRecord(msg, args, used, buffer) ==
    IF HasNoArguments(args)
    THEN [message |-> msg, err |-> FALSE, used |-> used, buffer |-> buffer]
    ELSE LET r == FormatString(msg, args, MarksCleared(used), buffer)
             message ==
                 IF r.err THEN <<>>
                 ELSE IF Cardinality(r.used) >= Len(args) THEN r.out
                 ELSE AppendUnused(r.out, args, r.used, 0)
         IN  [message |-> message, err |-> r.err, used |-> r.used, buffer |-> r.buffer]

\* Formatter.FormatMessage: what the caller gets
FormatMessage(msg, args, used, buffer) ==
    LET r == FormatMessageRecord(msg, args, used, buffer)
    IN  [message |-> IF r.err THEN <<>> ELSE r.message, err |-> r.err, called |-> TRUE]

\* a record with any message and any arguments within the bounds
InitFormat ==
    /\ InitBase
    /\ wpc = "select"
    /\ tdefault = TRUE
    /\ fmsg \in Templates
    /\ fargs \in ArgumentLists
    /\ fres = NoResult
    /\ fmtpc = "call"
    /\ topc = "done"
    /\ NewFormatter

\* FormatMessage on any record: the Formatter keeps the marks and the buffer
FormatterKeeps(msg, args) ==
    LET r == FormatMessageRecord(msg, args, usedArguments, messageBuffer)
    IN  /\ usedArguments' = r.used
        /\ messageBuffer' = r.buffer

FormatMessageCall ==
    /\ fmtpc = "call"
    /\ fres' = FormatMessage(fmsg, fargs, usedArguments, messageBuffer)
    /\ FormatterKeeps(fmsg, fargs)
    /\ fmtpc' = "done"
    /\ ftrail' = "first"
    /\ UNCHANGED <<fmsg, fargs, cfgVars, baseVars, notFmtVars>>

NextFormat == FormatMessageCall

SpecFormat == InitFormat /\ [][NextFormat]_vars

(* ------ SpecRepeat: the same record formatted again ------------------- *)
\* the records formatted in between
OtherRecords == {[msg |-> <<[kind |-> "auto", n |-> 0]>>, args |-> <<"text">>]}

\* FormatMessage on the record once more
FormatMessageAgain ==
    /\ fmtpc = "done"
    /\ fres' = FormatMessage(fmsg, fargs, usedArguments, messageBuffer)
    /\ FormatterKeeps(fmsg, fargs)
    /\ ftrail' = IF ftrail = "other" THEN "second" ELSE ftrail
    /\ UNCHANGED <<fmsg, fargs, fmtpc, cfgVars, baseVars, notFmtVars>>

\* FormatMessage on another record, with the same Formatter
FormatOther(r) ==
    /\ FormatterKeeps(r.msg, r.args)
    /\ ftrail' = IF ftrail = "first" THEN "other" ELSE ftrail
    /\ UNCHANGED <<fmsg, fargs, fres, fmtpc, cfgVars, baseVars, notFmtVars>>

NextRepeat ==
    \/ FormatMessageCall
    \/ FormatMessageAgain
    \/ \E r \in OtherRecords : FormatOther(r)

SpecRepeat == InitFormat /\ [][NextRepeat]_vars

(* ------ SpecFormatter: a Formatter configured, then called ----------- *)
\* the name of the function a caller adds
FunctionName == "f"

\* a top-level format: text, {date}, {message}, a call of the added function,
\* or text that is no valid template
FormatTokens == {Token(k) : k \in {"text", "date", "message", "func", "bad"}}
Formats == SeqsUpTo(FormatTokens, MaxTokens)

\* a date format of at most one token: text (with the time functions of the
\* record, which cannot fail), a call of the added function, or no template
DateTokens == {Token(k) : k \in {"text", "func", "bad"}}
DateFormats == {<<>>} \cup {<<t>> : t \in DateTokens}

\* the records the caller formats
RecordSamples ==
    {[msg |-> <<Token("text")>>, args |-> <<>>],
     [msg |-> <<Token("func")>>, args |-> <<>>],
     [msg |-> <<Token("auto")>>, args |-> <<"text">>],
     [msg |-> <<Token("func")>>, args |-> <<"text">>],
     [msg |-> <<Token("bad")>>, args |-> <<"text">>]}

\* templ.Parse on Formatter.template: the text is a template and the function
\* it calls has been added
TemplateParses(tmpl, added) ==
    \A i \in DOMAIN tmpl :
        /\ tmpl[i].kind # "bad"
        /\ tmpl[i].kind = "func" => FunctionName \in added

\* what the added function prints
Called == [kind |-> "called", n |-> 0]

\* formatString(f.template, f.timeBuffer, f.dateFormat, nil)
DateString(date, added) ==
    IF date = <<>> THEN [out |-> <<>>, err |-> FALSE]
    ELSE IF ~TemplateParses(date, added) THEN [out |-> <<>>, err |-> TRUE]
    ELSE [out |-> [i \in DOMAIN date |-> IF date[i].kind = "func" THEN Called ELSE date[i]],
          err |-> FALSE]

\* one token of the top-level format executed: the functions date and message
\* of getRecordFuncs print a failure and return what they have
FormatStep(t, date, added, msg, args, st) ==
    LET d == DateString(date, added)
        m == FormatMessageRecord(msg, args, st.used, st.buffer)
    IN  CASE t.kind = "date" ->
               [st EXCEPT !.out = Append(@, [kind |-> "date", out |-> d.out]),
                          !.printed = IF d.err THEN @ \cup {"date"} ELSE @]
          [] t.kind = "message" ->
               [out |-> Append(st.out, [kind |-> "message", out |-> m.message]),
                used |-> m.used,
                buffer |-> m.buffer,
                printed |-> IF m.err THEN st.printed \cup {"message"} ELSE st.printed]
          [] t.kind = "func" ->
               [st EXCEPT !.out = Append(@, Called)]
          [] OTHER ->
               [st EXCEPT !.out = Append(@, t)]

\* templ.Execute of the top-level format from token k on; the state after a
\* token is computed once and handed to the rest
RECURSIVE ExecuteFormat(_, _, _, _, _, _, _)
ExecuteFormat(fmt, date, added, msg, args, k, st) ==
    IF k > Len(fmt) THEN st
    ELSE CHOOSE r \in {ExecuteFormat(fmt, date, added, msg, args, k + 1, next) :
                          next \in {FormatStep(fmt[k], date, added, msg, args, st)}} : TRUE

\* Formatter.Format: what it returns and what it leaves in the Formatter
FormatRecord(fmt, date, added, msg, args, used, buffer) ==
    IF fmt = <<>>
    THEN [out |-> <<>>, err |-> FALSE, used |-> used, buffer |-> buffer, printed |-> {}]
    ELSE IF ~TemplateParses(fmt, added)
    THEN [out |-> <<>>, err |-> TRUE, used |-> used, buffer |-> buffer, printed |-> {}]
    ELSE LET st == ExecuteFormat(fmt, date, added, msg, args, 1,
                                 [out |-> <<>>, used |-> used, buffer |-> buffer,
                                  printed |-> {}])
         IN  [out |-> st.out, err |-> FALSE, used |-> st.used, buffer |-> st.buffer,
              printed |-> st.printed]

\* a Formatter from NewFormatter, a record, a caller about to configure it
InitFormatter ==
    /\ InitBase
    /\ wpc = "select"
    /\ tdefault = TRUE
    /\ \E r \in RecordSamples : fmsg = r.msg /\ fargs = r.args
    /\ fres = NoResult
    /\ fmtpc = "done"
    /\ topc = "config"
    /\ NewFormatter

FormatterUnchanged == UNCHANGED <<fmsg, fargs, fmtpc, ftrail, baseVars, notFmtVars>>
StateUnchanged == UNCHANGED <<fres, usedArguments, messageBuffer, topc, tres, printed>>

\* Formatter.SetFormat
SetFormat(f) ==
    /\ topc = "config"
    /\ format' = f
    /\ UNCHANGED <<dateFormat, funcs>>
    /\ StateUnchanged
    /\ FormatterUnchanged

\* Formatter.SetDateFormat
SetDateFormat(d) ==
    /\ topc = "config"
    /\ dateFormat' = d
    /\ UNCHANGED <<format, funcs>>
    /\ StateUnchanged
    /\ FormatterUnchanged

\* Formatter.AddFuncs
AddFuncs ==
    /\ topc = "config"
    /\ funcs' = funcs \cup {FunctionName}
    /\ UNCHANGED <<format, dateFormat>>
    /\ StateUnchanged
    /\ FormatterUnchanged

\* Formatter.Reset: the formats go back to the defaults, the added functions stay
FormatterReset ==
    /\ topc = "config"
    /\ format' = DefaultFormat
    /\ dateFormat' = DefaultDateFormat
    /\ UNCHANGED funcs
    /\ StateUnchanged
    /\ FormatterUnchanged

\* Formatter.GetDateFormat: return f.format
GetDateFormat(fmt, date) == fmt

GetDateFormatCall ==
    /\ topc = "config"
    /\ tres' = [op |-> "GetDateFormat", out |-> GetDateFormat(format, dateFormat), err |-> FALSE]
    /\ topc' = "done"
    /\ UNCHANGED <<format, dateFormat, funcs, fres, usedArguments, messageBuffer, printed>>
    /\ FormatterUnchanged

\* Formatter.Format on the record
FormatCall ==
    /\ topc = "config"
    /\ LET r == FormatRecord(format, dateFormat, funcs, fmsg, fargs, usedArguments,
                             messageBuffer)
       IN  /\ tres' = [op |-> "Format", out |-> IF r.err THEN <<>> ELSE r.out, err |-> r.err]
           /\ usedArguments' = r.used
           /\ messageBuffer' = r.buffer
           /\ printed' = printed \cup r.printed
    /\ topc' = "done"
    /\ UNCHANGED <<format, dateFormat, funcs, fres>>
    /\ FormatterUnchanged

\* Formatter.FormatTime on the record
FormatTimeCall ==
    /\ topc = "config"
    /\ LET d == DateString(dateFormat, funcs)
       IN  tres' = [op |-> "FormatTime", out |-> d.out, err |-> d.err]
    /\ topc' = "done"
    /\ UNCHANGED <<format, dateFormat, funcs, fres, usedArguments, messageBuffer, printed>>
    /\ FormatterUnchanged

\* Formatter.FormatMessage on the record
FormatMessageConfigured ==
    /\ topc = "config"
    /\ fres' = FormatMessage(fmsg, fargs, usedArguments, messageBuffer)
    /\ FormatterKeeps(fmsg, fargs)
    /\ tres' = [op |-> "FormatMessage", out |-> <<>>, err |-> FALSE]
    /\ topc' = "done"
    /\ UNCHANGED <<format, dateFormat, funcs, printed>>
    /\ FormatterUnchanged

NextFormatter ==
    \/ \E f \in Formats : SetFormat(f)
    \/ \E d \in DateFormats : SetDateFormat(d)
    \/ AddFuncs
    \/ FormatterReset
    \/ GetDateFormatCall
    \/ FormatCall
    \/ FormatTimeCall
    \/ FormatMessageConfigured

SpecFormatter == InitFormatter /\ [][NextFormatter]_vars

(* ---- SpecLocks: every lock and channel operation of every goroutine ---- *)
\* The calls are followed operation by operation: lops[t] holds what is left
\* of the call goroutine t is in. The data the setters write is left out; the
\* worker invokes Emit on every handler, which takes every lock emit can take.
Op(op, m) == [op |-> op, m |-> m]

\* a Stream setter called on handler h (Enable, Disable, SetLevel ..
\* SetLevelRange, SetFormatter, File.SetName): Lock, Unlock
HandlerSetOps(h) == <<Op("lock", h), Op("unlock", h)>>

\* handler.GetFormatter().SetFormat(..) and the like: GetFormatter returns
\* under the stream's read lock, the Formatter's setter takes its own lock
FormatterSetOps(h) ==
    <<Op("rlock", h), Op("runlock", h),
      Op("lock", FormatterOf(h)), Op("unlock", FormatterOf(h))>>

\* mutant: the stream handler reads the formatter through GetFormatter
StreamEmitOpsGetter(h) ==
    <<Op("lock", h), Op("rlock", h), Op("runlock", h),
      Op("lock", FormatterOf(h)), Op("unlock", FormatterOf(h)), Op("unlock", h)>>

\* Stream.Emit: s.mutex.Lock; s.handler(s.writer, record, s.formatter) calls
\* Formatter.Format, which locks the Formatter and calls no locking method
StreamEmitOps(h) ==
    <<Op("lock", h), Op("lock", FormatterOf(h)), Op("unlock", FormatterOf(h)),
      Op("unlock", h)>>

\* one turn of emit's range loop: handler.GetLevelRange(), handler.Emit(record)
EmitHandlerOps(h) == <<Op("rlock", h), Op("runlock", h)>> \o StreamEmitOps(h)

\* Stream.Close: Lock, Unlock
StreamCloseOps(h) == <<Op("lock", h), Op("unlock", h)>>

\* the body of "for _, handler := range l.handlers" for one handler
BodyOps(kind, h) ==
    CASE kind = "emit" -> EmitHandlerOps(h)
      [] kind = "set" -> HandlerSetOps(h)
      [] kind = "format" -> FormatterSetOps(h)
      [] OTHER -> StreamCloseOps(h)

\* the range loop over the handlers in the order the map iteration gives
RECURSIVE RangeOps(_, _)
RangeOps(kind, order) ==
    IF order = <<>> THEN <<>>
    ELSE BodyOps(kind, Head(order)) \o RangeOps(kind, Tail(order))

\* the orders in which a range over the handler set hs can go
Orders(hs) ==
    {o \in UNION {[1..n -> hs] : n \in {Cardinality(hs)}} :
        \A i, j \in DOMAIN o : i # j => o[i] # o[j]}

\* Worker.emit: logger.mutex.RLock, the range loop, RUnlock
EmitOps == <<Op("rlock", LoggerMutex), Op("range", "emit"), Op("runlock", LoggerMutex)>>

\* Logger.Enable .. SetFormatter ("set") and Logger.SetFormat ..
\* ResetFormatters ("format"): Lock, the range loop, Unlock
LoggerRangeOps(kind) ==
    <<Op("lock", LoggerMutex), Op("range", kind), Op("unlock", LoggerMutex)>>

\* Logger.SetName, SetErrorCode, SetIDGenerator: Lock, Unlock
LoggerSetNameOps == <<Op("lock", LoggerMutex), Op("unlock", LoggerMutex)>>

\* the handler sets AddHandler .. Reset leave, by name
HandlerSetNames == {"none", "one", "both"}
HandlerSetOf(name) ==
    CASE name = "none" -> {}
      [] name = "one" -> {"h1"}
      [] OTHER -> HandlerNames

\* Logger.AddHandler .. Logger.Reset: Lock, l.handlers assigned, Unlock
LoggerSetHandlersOps(name) ==
    <<Op("lock", LoggerMutex), Op("handlers", name), Op("unlock", LoggerMutex)>>

\* Logger.logMessage: GetWorker().records <- record
LogOps == <<Op("send", "")>>

\* Worker.Flush: w.flush <- flush; flush.Wait()
FlushOps == <<Op("fsend", ""), Op("fwait", "")>>

\* Logger.Close: GetWorker().Flush(), then under the write lock Close on
\* every handler
CloseOps == FlushOps \o LoggerRangeOps("close")

\* the flush branch of run for n queued records, then flush.Done()
RECURSIVE DrainOps(_, _)
DrainOps(n, f) ==
    IF n <= 0 THEN <<Op("done", f)>>
    ELSE <<Op("recv", "")>> \o EmitOps \o DrainOps(n - 1, f)

LocksUnchanged ==
    UNCHANGED <<pending, nextId, enqueued, dispatched, workerVars, histVars,
                fpc, fsnap, lockW, handlerVars, streamVars, closeVars, oldVars,
                notLockVars>>

Idle(t) == lops[t] = <<>>
Next1(t) == Head(lops[t])

\* a caller between calls starts the call whose operations are ops
Begin(t, ops) ==
    /\ Idle(t)
    /\ lops' = [lops EXCEPT ![t] = ops]
    /\ fdone' = IF t \in Waiters THEN [fdone EXCEPT ![t] = FALSE] ELSE fdone
    /\ UNCHANGED <<queue, flushChan, lhandlers, mu>>
    /\ LocksUnchanged

\* sync.RWMutex: whether operation op of goroutine t proceeds on a mutex in
\* state m. Lock first announces the writer (no other writer inside or
\* announced), then waits until the readers inside have left; RLock waits
\* while a writer is inside or announced.
MutexReady(m, t, op) ==
    CASE op = "lock" -> m.w = "none"
      [] op = "lockwait" -> m.r = {}
      [] op = "rlock" -> m.w = "none"
      [] OTHER -> TRUE

\* the mutex after the operation
MutexAfter(m, t, op) ==
    CASE op = "lock" -> [m EXCEPT !.w = t]
      [] op = "lockwait" -> m
      [] op = "rlock" -> [m EXCEPT !.r = @ \cup {t}]
      [] op = "runlock" -> [m EXCEPT !.r = @ \ {t}]
      [] OTHER -> [m EXCEPT !.w = "none"]

MutexOps == {"lock", "lockwait", "rlock", "runlock", "unlock"}

\* whether the next operation of goroutine t can proceed
Ready(t) ==
    IF Idle(t)
    THEN t = LockWorker /\ (queue # <<>> \/ flushChan # <<>>)
    ELSE CASE Next1(t).op \in MutexOps -> MutexReady(mu[Next1(t).m], t, Next1(t).op)
           [] Next1(t).op = "send" -> ChanCanSend(queue, QueueLength)
           [] Next1(t).op = "fsend" -> ChanCanSend(flushChan, FlushLength)
           [] Next1(t).op = "fwait" -> fdone[t]
           [] Next1(t).op = "recv" -> queue # <<>>
           [] OTHER -> TRUE

\* Lock, Unlock, RLock, RUnlock of goroutine t
MutexStep(t) ==
    /\ ~Idle(t)
    /\ Next1(t).op \in MutexOps
    /\ Ready(t)
    /\ mu' = [mu EXCEPT ![Next1(t).m] = MutexAfter(@, t, Next1(t).op)]
    /\ lops' = [lops EXCEPT ![t] = IF Next1(t).op = "lock"
                                   THEN <<Op("lockwait", Next1(t).m)>> \o Tail(@)
                                   ELSE Tail(@)]
    /\ UNCHANGED <<queue, flushChan, fdone, lhandlers>>
    /\ LocksUnchanged

\* "for _, handler := range l.handlers" begins: the handlers of this moment,
\* in some order
RangeStep(t) ==
    /\ ~Idle(t)
    /\ Next1(t).op = "range"
    /\ \E order \in Orders(lhandlers) :
          lops' = [lops EXCEPT ![t] = RangeOps(Next1(t).m, order) \o Tail(@)]
    /\ UNCHANGED <<queue, flushChan, fdone, lhandlers, mu>>
    /\ LocksUnchanged

\* l.handlers is assigned (under the write lock)
HandlersStep(t) ==
    /\ ~Idle(t)
    /\ Next1(t).op = "handlers"
    /\ lhandlers' = HandlerSetOf(Next1(t).m)
    /\ lops' = [lops EXCEPT ![t] = Tail(@)]
    /\ UNCHANGED <<queue, flushChan, fdone, mu>>
    /\ LocksUnchanged

\* records <- record completes
SendStep(t) ==
    /\ ~Idle(t)
    /\ Next1(t).op = "send"
    /\ Ready(t)
    /\ queue' = ChanSend(queue, [id |-> 0, level |-> InfoLevel])
    /\ lops' = [lops EXCEPT ![t] = Tail(@)]
    /\ UNCHANGED <<flushChan, fdone, lhandlers, mu>>
    /\ LocksUnchanged

\* w.flush <- flush completes
FlushSendStep(t) ==
    /\ ~Idle(t)
    /\ Next1(t).op = "fsend"
    /\ Ready(t)
    /\ flushChan' = Append(flushChan, t)
    /\ lops' = [lops EXCEPT ![t] = Tail(@)]
    /\ UNCHANGED <<queue, fdone, lhandlers, mu>>
    /\ LocksUnchanged

\* flush.Wait() returns
FlushWaitStep(t) ==
    /\ ~Idle(t)
    /\ Next1(t).op = "fwait"
    /\ Ready(t)
    /\ lops' = [lops EXCEPT ![t] = Tail(@)]
    /\ UNCHANGED <<queue, flushChan, fdone, lhandlers, mu>>
    /\ LocksUnchanged

\* run, select: case flush := <-w.flush
LockSelectFlush ==
    /\ Idle(LockWorker)
    /\ flushChan # <<>>
    /\ flushChan' = Tail(flushChan)
    /\ lops' = [lops EXCEPT ![LockWorker] = <<Op("len", Head(flushChan))>>]
    /\ UNCHANGED <<queue, fdone, lhandlers, mu>>
    /\ LocksUnchanged

\* run, flush branch: records := len(w.records) fixes the turns of the loop
LenStep ==
    /\ ~Idle(LockWorker)
    /\ Next1(LockWorker).op = "len"
    /\ lops' = [lops EXCEPT ![LockWorker] = DrainOps(FlushCount(queue), Next1(LockWorker).m)]
    /\ UNCHANGED <<queue, flushChan, fdone, lhandlers, mu>>
    /\ LocksUnchanged

\* run, flush branch: record := <-w.records
RecvStep ==
    /\ ~Idle(LockWorker)
    /\ Next1(LockWorker).op = "recv"
    /\ Ready(LockWorker)
    /\ queue' = Tail(queue)
    /\ lops' = [lops EXCEPT ![LockWorker] = Tail(@)]
    /\ UNCHANGED <<flushChan, fdone, lhandlers, mu>>
    /\ LocksUnchanged

\* run, flush branch: flush.Done()
DoneStep ==
    /\ ~Idle(LockWorker)
    /\ Next1(LockWorker).op = "done"
    /\ fdone' = WaitGroupDone(fdone, Next1(LockWorker).m)
    /\ lops' = [lops EXCEPT ![LockWorker] = Tail(@)]
    /\ UNCHANGED <<queue, flushChan, lhandlers, mu>>
    /\ LocksUnchanged

\* run, select: case record := <-w.records, then emit
LockSelectRecord ==
    /\ Idle(LockWorker)
    /\ queue # <<>>
    /\ queue' = Tail(queue)
    /\ lops' = [lops EXCEPT ![LockWorker] = EmitOps]
    /\ UNCHANGED <<flushChan, fdone, lhandlers, mu>>
    /\ LocksUnchanged

NextLocks ==
    \/ Begin("p1", LogOps)
    \/ Begin("f1", FlushOps)
    \/ Begin("c1", CloseOps)
    \/ \E s \in SetterCallers, kind \in {"set", "format"} : Begin(s, LoggerRangeOps(kind))
    \/ \E s \in SetterCallers : Begin(s, LoggerSetNameOps)
    \/ \E s \in SetterCallers, n \in HandlerSetNames : Begin(s, LoggerSetHandlersOps(n))
    \/ \E s \in SetterCallers, h \in HandlerNames : Begin(s, HandlerSetOps(h))
    \/ \E s \in SetterCallers, h \in HandlerNames : Begin(s, FormatterSetOps(h))
    \/ \E t \in LockThreads : MutexStep(t)
    \/ \E t \in LockThreads : RangeStep(t)
    \/ \E t \in LockThreads : HandlersStep(t)
    \/ \E t \in LockThreads : SendStep(t)
    \/ \E t \in LockThreads : FlushSendStep(t)
    \/ \E t \in LockThreads : FlushWaitStep(t)
    \/ LockSelectFlush
    \/ LenStep
    \/ RecvStep
    \/ DoneStep
    \/ LockSelectRecord

SpecLocks == Init /\ [][NextLocks]_vars


(* ---- SpecStream: one Stream with an opener, every call that touches ----- *)
(* ---- its writer and closer                                           ----- *)
\* what a call did: the fields after it, whether it returned an error,
\* whether it called Close on the closer it held and with what result,
\* whether it called Open and over which writer and closer
Outcome(s, err, closeCalled, closeOk, openCalled, over) ==
    [fields |-> s, closer |-> s.closer, err |-> err,
     closeCalled |-> closeCalled, closeOk |-> closeOk,
     openCalled |-> openCalled, over |-> over, wrote |-> FALSE]

NoOpen == [writer |-> 0, closer |-> 0]

\* mutant: the error of Open is dropped and Emit goes on
OpenErrorIgnored(mustOpen, openOk) == FALSE

\* Stream.Emit: "if err != nil" after s.opener.Open() returns the error
OpenError(mustOpen, openOk) == mustOpen /\ ~openOk

\* Stream.Emit on the fields s; fresh is the resource Open would return
StreamEmitFields(s, io, fresh) ==
    LET mustClose == s.reopen /\ s.closer # 0
        closeFailed == mustClose /\ ~io.close
        s1 == IF s.reopen /\ ~closeFailed
              THEN [s EXCEPT !.writer = IF mustClose THEN 0 ELSE @,
                             !.closer = IF mustClose THEN 0 ELSE @,
                             !.reopen = FALSE]
              ELSE s
        mustOpen == ~closeFailed /\ s1.writer = 0 /\ s1.closer = 0
        openOk == mustOpen /\ io.open /\ fresh <= MaxResources
        s2 == IF openOk THEN [s1 EXCEPT !.writer = fresh, !.closer = fresh] ELSE s1
        openFailed == OpenError(mustOpen, openOk)
        writes == ~closeFailed /\ ~openFailed /\ s2.writer # 0
    IN  [Outcome(s2, closeFailed \/ openFailed \/ (writes /\ ~io.write),
                 mustClose, mustClose /\ io.close, mustOpen,
                 [writer |-> s1.writer, closer |-> s1.closer])
            EXCEPT !.wrote = writes /\ io.write]

\* mutant: the first Stream.Close, which cleared the writer before it looked
\* at the error of Close
StreamCloseClearsFirst(s, io) ==
    IF s.closer # 0
    THEN Outcome([s EXCEPT !.writer = 0, !.closer = 0], ~io.close, TRUE, io.close, FALSE, NoOpen)
    ELSE Outcome(s, FALSE, FALSE, FALSE, FALSE, NoOpen)

\* Stream.Close on the fields s
StreamCloseFields(s, io) ==
    IF s.closer # 0
    THEN IF io.close
         THEN Outcome([s EXCEPT !.writer = 0, !.closer = 0], FALSE, TRUE, TRUE, FALSE, NoOpen)
         ELSE Outcome(s, TRUE, TRUE, FALSE, FALSE, NoOpen)
    ELSE Outcome(s, FALSE, FALSE, FALSE, FALSE, NoOpen)

\* Stream.SetWriter(writer) on the fields s
StreamSetWriter(s, writer, io) ==
    IF s.writer = writer
    THEN Outcome(s, FALSE, FALSE, FALSE, FALSE, NoOpen)
    ELSE IF s.closer # 0 /\ ~io.close
         THEN Outcome(s, TRUE, TRUE, FALSE, FALSE, NoOpen)
         ELSE Outcome([s EXCEPT !.writer = writer, !.closer = 0], FALSE,
                      s.closer # 0, s.closer # 0, FALSE, NoOpen)

\* Stream.SetWriteCloser(writeCloser) on the fields s
StreamSetWriteCloser(s, writeCloser, io) ==
    IF s.writer = writeCloser /\ s.closer = writeCloser
    THEN Outcome(s, FALSE, FALSE, FALSE, FALSE, NoOpen)
    ELSE IF s.closer # 0 /\ ~io.close
         THEN Outcome(s, TRUE, TRUE, FALSE, FALSE, NoOpen)
         ELSE Outcome([s EXCEPT !.writer = writeCloser, !.closer = writeCloser], FALSE,
                      s.closer # 0, s.closer # 0, FALSE, NoOpen)

\* history: what the call did with resources. The closer held before is let
\* go when the call leaves another closer (or none) in its place; a closer
\* the Stream did not hold before is taken.
Events(s, o) ==
    (IF o.openCalled THEN <<[op |-> "open", res |-> o.closer, closed |-> FALSE, over |-> o.over]>>
     ELSE <<>>)
    \o (IF s.closer # 0 /\ o.closer # s.closer
        THEN <<[op |-> "let go", res |-> s.closer, closed |-> o.closeOk, over |-> NoOpen]>>
        ELSE <<>>)

\* history: the resources open after the call: those open before, without
\* the one a Close closed with success, with the one the Stream took
OpenAfter(open, s, o) ==
    ((IF o.closeOk THEN open \ {s.closer} ELSE open)
        \cup (IF o.closer # 0 THEN {o.closer} ELSE {}))

\* the call named call, whose outcome is o, is made on the Stream
StreamCall(call, o) ==
    /\ stream' = o.fields
    /\ slog' = [call |-> call, events |-> Events(stream, o), err |-> o.err,
                wrote |-> o.wrote, openFailed |-> o.openCalled /\ o.closer = 0,
                before |-> stream]
    /\ sopen' = OpenAfter(sopen, stream, o)

\* the streamVars and the rest stay, but for the resources handed out and
\* the Close calls counted
ResourcesAfter(o, taken) ==
    /\ nextRes' = IF taken THEN nextRes + 1 ELSE nextRes
    /\ closeCalls' = IF o.closeCalled THEN BumpClose(closeCalls, stream.closer) ELSE closeCalls
    /\ UNCHANGED <<queue, flushChan, pending, nextId, enqueued, dispatched,
                   workerVars, histVars, flushVars, lhandlers, lockW,
                   handlerVars, sWriter, sReopen, closeVars, oldVars, notStVars>>

\* Stream.Emit(record)
EmitCall(io) ==
    LET o == StreamEmitFields(stream, io, nextRes)
    IN  StreamCall("Emit", o) /\ ResourcesAfter(o, o.closer # 0 /\ o.closer = nextRes)

\* Stream.Close()
CloseCallStream(io) ==
    LET o == StreamCloseFields(stream, io)
    IN  StreamCall("Close", o) /\ ResourcesAfter(o, FALSE)

\* Stream.SetWriter(writer): nil, a plain writer, or the writer it holds
SetWriter(writer, io) ==
    LET o == StreamSetWriter(stream, writer, io)
    IN  StreamCall("SetWriter", o) /\ ResourcesAfter(o, FALSE)

\* Stream.SetWriteCloser(writeCloser): a resource the caller has just
\* opened, or the one the Stream holds
SetWriteCloser(writeCloser, io) ==
    LET o == StreamSetWriteCloser(stream, writeCloser, io)
    IN  /\ writeCloser <= MaxResources
        /\ StreamCall("SetWriteCloser", o)
        /\ ResourcesAfter(o, writeCloser = nextRes)

\* Stream.SetLevel(level), Stream.Disable() and Stream.Enable()
StreamConfigure ==
    /\ \E level \in TestLevels, flag \in BOOLEAN :
          stream' \in {[stream EXCEPT !.minimumLevel = level, !.maximumLevel = level],
                       [stream EXCEPT !.isDisabled = flag]} \ {stream}
    /\ slog' = [NoCall EXCEPT !.call = "SetLevel", !.before = stream]
    /\ UNCHANGED <<sopen, baseVars, notStVars>>

\* Stream.Reopen()
Reopen ==
    /\ stream' = [stream EXCEPT !.reopen = TRUE]
    /\ slog' = [NoCall EXCEPT !.call = "Reopen", !.before = stream]
    /\ UNCHANGED <<sopen, baseVars, notStVars>>

NextStream ==
    \/ \E io \in IOOutcomes : EmitCall(io)
    \/ \E io \in IOOutcomes : CloseCallStream(io)
    \/ \E w \in {0, PlainWriter, stream.writer}, io \in IOOutcomes : SetWriter(w, io)
    \/ \E wc \in {nextRes, stream.closer} \ {0}, io \in IOOutcomes : SetWriteCloser(wc, io)
    \/ Reopen
    \/ StreamConfigure

SpecStream == Init /\ [][NextStream]_vars


(* ---- SpecQueue: SetQueueLength while producers, Flush and the worker ---- *)
(* ---- run                                                             ---- *)
\* the lengths SetQueueLength is called with; DefaultQueueLength is
\* QueueLength in the model
QueueLengths == {0, 1, QueueLength}

\* SetQueueLength: "if length <= 0 { length = DefaultQueueLength }"
NormalLength(length) == IF length <= 0 THEN QueueLength ELSE length

\* the read of the field w.records by goroutine t found the channel
\* w.records refers to now
Current(t) == qbind[t] = 0

\* Worker.SetQueueLength(length): under w.mutex, which no other method takes,
\* a channel of another capacity is made and assigned to w.records. The
\* goroutines that have evaluated w.records keep the channel they got: a
\* producer whose send is under way and, when nothing was ready for it, the
\* worker waiting in its select.
SetQueueLength(length) ==
    LET new == NormalLength(length)
        retired == Len(qold) + 1
        parked == IF wpc = "select" /\ queue = <<>> /\ flushChan = <<>> /\ Current(LockWorker)
                  THEN {LockWorker} ELSE {}
        sending == {p \in Producers : pending[p] # NoRec /\ Current(p)} 
    IN  IF qcap # new
        THEN /\ Len(qold) < MaxReplacements
             /\ qold' = Append(qold, [buf |-> queue, cap |-> qcap])
             /\ queue' = <<>>
             /\ qcap' = new
             /\ \E inside \in SUBSET parked :
                   qbind' = [t \in DOMAIN qbind |->
                                IF t \in sending \cup inside THEN retired ELSE qbind[t]]
             /\ UNCHANGED <<flushChan, pending, nextId, enqueued, dispatched,
                            workerVars, histVars, flushVars, lhandlers, lockW,
                            handlerVars, streamVars, closeVars, oldVars, notQueueVars>>
        ELSE UNCHANGED vars

\* Logger.logMessage: "GetWorker().records <- record" completes on the
\* channel the producer got when it evaluated the operands
QueueSend(p) ==
    /\ pending[p] # NoRec
    /\ IF Current(p)
       THEN /\ ChanCanSend(queue, qcap)
            /\ queue' = ChanSend(queue, pending[p])
            /\ UNCHANGED qold
       ELSE /\ ChanCanSend(qold[qbind[p]].buf, qold[qbind[p]].cap)
            /\ qold' = [qold EXCEPT ![qbind[p]].buf = ChanSend(@, pending[p])]
            /\ UNCHANGED queue
    /\ enqueued' = Note(enqueued, pending[p].id)
    /\ pending' = [pending EXCEPT ![p] = NoRec]
    /\ qbind' = [qbind EXCEPT ![p] = 0]
    /\ UNCHANGED <<qcap, flushChan, nextId, dispatched, workerVars, histVars,
                   flushVars, lhandlers, lockW, handlerVars, streamVars,
                   closeVars, oldVars, notQueueVars>>

\* select: case record := <-w.records, for the worker that waits in the
\* select on a replaced channel
StaleSelectRecord ==
    /\ wpc = "select"
    /\ ~Current(LockWorker)
    /\ qold[qbind[LockWorker]].buf # <<>>
    /\ wrec' = Head(qold[qbind[LockWorker]].buf)
    /\ qold' = [qold EXCEPT ![qbind[LockWorker]].buf = Tail(@)]
    /\ qbind' = [qbind EXCEPT ![LockWorker] = 0]
    /\ wmode' = "record"
    /\ wpc' = "rlock"
    /\ UNCHANGED <<queue, qcap, flushChan, pending, nextId, enqueued, dispatched,
                   wcount, wflush, wtodo, wvisited, wgot, werr, histVars, flushVars,
                   lhandlers, lockW, handlerVars, streamVars, closeVars, oldVars,
                   notQueueVars>>

\* select: case flush := <-w.flush, taken by the worker that waits in the
\* select on a replaced channel: the next read of w.records is a new one
StaleSelectFlush ==
    /\ ~Current(LockWorker)
    /\ wpc = "select"
    /\ flushChan # <<>>
    /\ wflush' = Head(flushChan)
    /\ flushChan' = Tail(flushChan)
    /\ wpc' = "flushLen"
    /\ qbind' = [qbind EXCEPT ![LockWorker] = 0]
    /\ UNCHANGED <<queue, qcap, qold, pending, nextId, enqueued, dispatched, wmode,
                   wcount, wrec, wtodo, wvisited, wgot, werr, histVars, flushVars,
                   lhandlers, lockW, handlerVars, streamVars, closeVars, oldVars,
                   notQueueVars>>

NextQueue ==
    \/ \E p \in Producers : LogMessage(p, InfoLevel)
    \/ \E p \in Producers : QueueSend(p)
    \/ \E n \in QueueLengths : SetQueueLength(n)
    \/ \E f \in FailingFlushers : FlushCall(f)
    \/ \E f \in FailingFlushers : FlushSend(f)
    \/ \E f \in FailingFlushers : FlushReturn(f)
    \/ Current(LockWorker) /\ WorkerSelectFlush
    \/ Current(LockWorker) /\ WorkerSelectRecord
    \/ StaleSelectRecord
    \/ StaleSelectFlush
    \/ WorkerStep

SpecQueue == Init /\ [][NextQueue]_vars


(* ---- SpecInject: a pre-built Record through Logger.Emit and Worker.emit ---- *)
DefaultTypeName == "log"
\* filepath.Base(os.Args[0])
ProgramName == "prog"
\* what getAddress and getHostname return: the value found, or the fallback
\* that comes with an error
Addresses == {"192.168.0.2", "127.0.0.1"}
Hostnames == {"here", "localhost"}
\* what idGenerator.Generate() returns: an identifier, or nil with an error
GeneratedIDs == {0, 101}
\* Record.Time in half seconds, 0 being the zero time
Times == 0 .. 3

\* filepath.Base on a path given by its elements: the last element, "." for
\* the empty path
Base(path) == IF path = <<>> THEN "." ELSE path[Len(path)]

\* Time.Format(time.RFC3339): the text has whole seconds
FormatRFC3339(t) == <<"rfc3339", t \div 2>>

\* the records callers build before Logger.Emit, e.g. from a transport: each
\* field is left empty or set
PreBuilt ==
    { [NoRecord EXCEPT !.Type = f.Type, !.Name = f.Name, !.ID = f.ID,
                       !.Address = f.Address, !.Hostname = f.Hostname,
                       !.Path = f.File[1], !.FileName = f.File[2],
                       !.Function = f.File[3], !.Created = f.Stamp[1],
                       !.Time = f.Stamp[2], !.Level = InfoLevel] :
        f \in [Type : {"", "audit"}, Name : {"", "remote"}, ID : {0, 7},
               Address : {"", "10.0.0.1"}, Hostname : {"", "far"},
               File : {<<<<>>, "", <<>>>>,
                       <<<<"src", "a.go">>, "a.go", <<"main.run">>>>,
                       <<<<>>, "b.go", <<"pkg", "lib.Call">>>>},
               Stamp : {<<<<>>, 0>>, <<<<>>, 3>>, <<<<"rfc3339", 9>>, 0>>,
                        <<<<"rfc3339", 1>>, 3>>}] }

\* Worker.emit, the assignments before the logger's lock
EmitStamped(record, address, hostname) ==
    [record EXCEPT !.Type = DefaultTypeName,
                   !.FileName = Base(record.Path),
                   !.Function = <<Base(record.Function)>>,
                   !.Created = FormatRFC3339(record.Time),
                   !.Address = address,
                   !.Hostname = hostname]

\* Worker.emit, the assignments under the logger's read lock
EmitNamed(record, name, id) ==
    [record EXCEPT !.Name = IF name = "" THEN ProgramName ELSE name,
                   !.ID = id]

InjectUnchanged ==
    UNCHANGED <<baseVars, notInjVars>>

\* Logger.Emit(record): record.logger = l and the send to the worker
LoggerEmit(record) ==
    /\ ipc \in {"none", "emitted"}
    /\ ipre' = record
    /\ irec' = [record EXCEPT !.logger = 1]
    /\ ipc' = "queued"
    /\ igot' = {}
    /\ InjectUnchanged

\* Worker.run receives the Record and Worker.emit runs up to the lock
EmitPrepare(address, hostname) ==
    /\ ipc = "queued"
    /\ irec' = EmitStamped(irec, address, hostname)
    /\ ipc' = "prepared"
    /\ UNCHANGED <<ipre, igot>>
    /\ InjectUnchanged

\* Worker.emit under logger.mutex.RLock(), up to the loop
EmitName(id) ==
    /\ ipc = "prepared"
    /\ LoggerLockFree
    /\ irec' = EmitNamed(irec, lname, id)
    /\ ipc' = "named"
    /\ UNCHANGED <<ipre, igot>>
    /\ InjectUnchanged

\* Worker.emit, the loop over logger.handlers
EmitToHandlers ==
    /\ ipc = "named"
    /\ igot' = {h \in lhandlers : InRange(irec.Level, hMin[h], hMax[h])}
    /\ ipc' = "emitted"
    /\ UNCHANGED <<irec, ipre>>
    /\ InjectUnchanged

NextInject ==
    \/ \E record \in PreBuilt : LoggerEmit(record)
    \/ \E a \in Addresses, n \in Hostnames : EmitPrepare(a, n)
    \/ \E id \in GeneratedIDs : EmitName(id)
    \/ EmitToHandlers
    \/ \E n \in LoggerNames : ipc \in {"none", "emitted"} /\ LoggerSetName(n)

SpecInject == Init /\ [][NextInject]_vars


(* ---- SpecWindow: the logger changes between a log call and its dispatch ---- *)
\* mutant: the name the logger had at the log call
RecordNameAtCall(name) == IF atCall.name = "" THEN ProgramName ELSE atCall.name

\* emit: record.Name = logger.name, and filepath.Base(os.Args[0]) for the
\* empty name
RecordName(name) == IF name = "" THEN ProgramName ELSE name

\* Logger.logMessage up to the send, with what is in force noted
LogMessageNoted(p, lvl) ==
    /\ BuildRecord(p, lvl)
    /\ atCall' = [id |-> nextId, handlers |-> lhandlers, min |-> hMin,
                  max |-> hMax, name |-> lname]
    /\ UNCHANGED <<wname, notWinVars>>

\* emit under logger.mutex.RLock(), up to the loop: the record is named and
\* the range over logger.handlers starts
EmitLockNamed ==
    /\ TakeReadLock
    /\ wname' = RecordName(lname)
    /\ UNCHANGED <<atCall, notWinVars>>

\* emit returns; the note of the log call ends with the dispatch of its record
EmitDoneNoted ==
    /\ EmitReturn
    /\ wname' = ""
    /\ atCall' = IF wrec.id = atCall.id THEN NoCallTime ELSE atCall
    /\ UNCHANGED notWinVars

NextWindow ==
    \/ \E p \in DispatchProducers : LogMessageNoted(p, InfoLevel)
    \/ \E p \in DispatchProducers : Send(p)
    \/ \E h \in HandlerNames : AddHandler(h)
    \/ \E h \in HandlerNames : RemoveHandler(h)
    \/ \E h \in HandlerNames, lvl \in TestLevels : SetLevel(h, lvl)
    \/ \E n \in LoggerNames : LoggerSetName(n)
    \/ WorkerSelectRecord
    \/ EmitLockNamed
    \/ \E h \in HandlerNames : EmitVisit(h, IOSucceeds)
    \/ EmitDoneNoted

SpecWindow == Init /\ [][NextWindow]_vars


(* ---- SpecDrop: handlers are dropped from the Logger, then Close ---- *)
NextDrop ==
    \/ \E p \in DispatchProducers : LogMessage(p, InfoLevel)
    \/ \E p \in DispatchProducers : Send(p)
    \/ \E h \in HandlerNames : RemoveHandler(h)
    \/ RemoveHandlers
    \/ \E hs \in SUBSET HandlerNames : SetHandlers(hs)
    \/ ResetHandlers
    \/ \E c \in Closers : CloseCall(c)
    \/ \E c \in Closers : CloseFlushSend(c)
    \/ \E c \in Closers : CloseLock(c)
    \/ \E c \in Closers, h \in HandlerNames : CloseHandler(c, h, IOSucceeds)
    \/ \E c \in Closers : CloseReturn(c)
    \/ WorkerSelectFlush
    \/ WorkerSelectRecord
    \/ WorkerFlushLen
    \/ WorkerDrainRecv
    \/ WorkerFlushDone
    \/ EmitLock
    \/ \E h \in HandlerNames : EmitVisit(h, IOSucceeds)
    \/ EmitDone

SpecDrop == Init /\ [][NextDrop]_vars


(* ---- SpecReuse: the Logger is used again after Close ---- *)
\* every goroutine runs: the worker, the Close callers, and a log call gets
\* its turn on the queue
ReuseFairness ==
    /\ WF_vars(WorkerStep)
    /\ WF_vars(WorkerSelectRecord \/ WorkerSelectFlush)
    /\ \A c \in Closers : WF_vars(CloserStep(c))
    /\ \A p \in DispatchProducers : SF_vars(Send(p))

SpecReuse == Init /\ [][NextClose]_vars /\ ReuseFairness


(* ---- SpecSyslog: the priority the Syslog handler computes ---- *)
\* the level values of the records: the named levels from Trace to Panic and
\* the values half way between them
LevelValues == {5 * i : i \in (TraceLevel \div 5) .. (PanicLevel \div 5)}

\* the operators & and | of Go on non-negative integers
RECURSIVE BitAnd(_, _)
BitAnd(a, b) ==
    IF a = 0 \/ b = 0 THEN 0
    ELSE (a % 2) * (b % 2) + 2 * BitAnd(a \div 2, b \div 2)

RECURSIVE BitOr(_, _)
BitOr(a, b) ==
    IF a = 0 THEN b
    ELSE IF b = 0 THEN a
    ELSE (IF a % 2 = 1 \/ b % 2 = 1 THEN 1 ELSE 0) + 2 * BitOr(a \div 2, b \div 2)

\* the operator << of Go
ShiftLeft(a, n) == a * 2 ^ n

\* syslogPriority: the array of levels, indexed from 0 in the code
severities == <<FatalLevel, AlertLevel, CriticalLevel, ErrorLevel,
                WarningLevel, NoticeLevel, InfoLevel, DebugLevel>>

\* syslogPriority: "severity := 0; for i, level := range severities
\* { if level <= record.Level.Value { severity = i; break } }"
SyslogSeverity(value) ==
    LET hits == {i \in DOMAIN severities : severities[i] <= value}
    IN  IF hits = {} THEN 0
        ELSE (CHOOSE i \in hits : \A j \in hits : i <= j) - 1

\* syslogPriority: ((0x1F & s.facility) << 3) | (0x07 & severity)
SyslogPriority(fac, value) ==
    BitOr(ShiftLeft(BitAnd(31, fac), 3), BitAnd(7, SyslogSeverity(value)))

\* Syslog.Emit of a record of the given level: the template function
\* syslogPriority is evaluated for it
SyslogEmit(value) ==
    /\ LET result == [level |-> value, priority |-> SyslogPriority(facility, value)]
       IN  ylast' = IF Len(ylast) < 2 THEN Append(ylast, result)
                    ELSE <<ylast[2], result>>
    /\ UNCHANGED <<facility, baseVars, notSysVars>>

NextSyslog ==
    \E value \in LevelValues : SyslogEmit(value)

SpecSyslog == Init /\ [][NextSyslog]_vars


(* ------------------------- observations ------------------------------- *)
Range(seq) == {seq[i] : i \in DOMAIN seq}

\* ids whose dispatch has begun, in the order it began
Started == dispatched \o (IF wrec # NoRec /\ wrec.id > 0 THEN <<wrec.id>> ELSE <<>>)

\* how many places hold the record with this id
Occurrences(id) ==
    Cardinality({p \in DOMAIN pending : pending[p].id = id})
    + Cardinality({i \in DOMAIN queue : queue[i].id = id})
    + (IF wrec.id = id THEN 1 ELSE 0)
    + Cardinality({i \in DOMAIN dispatched : dispatched[i] = id})

(* ------------------------------ claims -------------------------------- *)
\* C1: the worker dispatches records in exactly the order in which their
\* enqueues completed: the ids whose dispatch has begun are, in order, a
\* prefix of the ids in enqueue order.
C1_FifoDispatch ==
    /\ Len(Started) <= Len(enqueued)
    /\ \A i \in 1..Len(Started) : Started[i] = enqueued[i]

\* C1 witness: every record was dispatched, the record created second was
\* enqueued first, and a Flush has returned meanwhile.
C1_Witness ==
    /\ Len(dispatched) = MaxRecords
    /\ enqueued[1] > enqueued[2]
    /\ \E f \in Flushers : fpc[f] = "returned"

\* C2: when Flush has returned, every record whose enqueue completed before
\* the Flush call began has been fully dispatched.
C2_FlushDrainsEarlier ==
    \A f \in Flushers :
        fpc[f] = "returned" =>
            \A i \in 1..fsnap[f] : enqueued[i] \in Range(dispatched)

\* C2 witness: a Flush that began after two enqueues has returned while the
\* other caller's Flush is still under way and a later record is still queued.
C2_Witness ==
    \E f, g \in Flushers :
        /\ fpc[f] = "returned"
        /\ fsnap[f] >= 2
        /\ fpc[g] \in {"send", "wait"}
        /\ Len(dispatched) < Len(enqueued)

\* C3: every Flush call eventually returns, for two concurrent callers and
\* producers that never stop enqueuing, given that every Emit returns and
\* the select is fair.
C3_FlushReturns ==
    \A f \in Flushers : (fpc[f] = "send") ~> (fpc[f] = "returned")

\* C3 witness: one caller waits on its wait group, the other is blocked
\* sending its own, the queue is full and a producer is blocked on it.
C3_Witness ==
    \E f, g \in Flushers :
        /\ fpc[f] = "wait"
        /\ fpc[g] = "send"
        /\ Len(flushChan) = FlushLength
        /\ Len(queue) = QueueLength
        /\ \E p \in Producers : pending[p] # NoRec

\* C4: every record created by a log call is in exactly one place (blocked
\* in its producer, queued, in the worker's hand, or dispatched) and there
\* once: none is dropped, none dispatched twice; the queue never holds more
\* than its capacity (a producer finding it full keeps its record and waits).
C4_ExactlyOnce ==
    /\ Len(queue) <= QueueLength
    /\ \A id \in 1..(nextId - 1) : Occurrences(id) = 1

\* C4 witness: a producer is blocked with its record on the full queue
\* while the worker is draining for a Flush.
C4_Witness ==
    /\ Len(queue) = QueueLength
    /\ \E p \in Producers : pending[p] # NoRec
    /\ wpc = "drain"
    /\ wcount > 0

\* C8: in every iteration of emit's range loop the handler's Emit is invoked
\* if and only if minimum <= level <= maximum, for the range read in that
\* iteration, both bounds included.
C8_InclusiveRange ==
    lastVisit # NoVisit =>
        (lastVisit.invoked <=>
            (lastVisit.min <= lastVisit.level /\ lastVisit.level <= lastVisit.max))

\* C8 witness: a record exactly at a handler's minimum and maximum was just
\* handed to it, after the other handler, whose range it lies just outside
\* of, was passed over for the same record.
C8_Witness ==
    /\ lastVisit.invoked
    /\ lastVisit.level = lastVisit.min
    /\ lastVisit.level = lastVisit.max
    /\ \E h \in wvisited \ wgot : hMin[h] # lastVisit.level /\ hMin[h] \in TestLevels

\* C9 (as claimed): a handler whose enable flag is off when the range loop
\* reaches it gets no Emit.
C9_DisabledGetsNothing ==
    (lastVisit # NoVisit /\ lastVisit.disabled) => ~lastVisit.invoked

\* C10: an Emit error ends neither the range loop nor the worker loop: while
\* emit runs every handler of the logger is either visited or still to be
\* visited, so emit returns only after visiting all of them, and the worker
\* is always at a position of its loop.
C10_ErrorDoesNotStopDispatch ==
    /\ wpc = "visit" => (wtodo \cup wvisited = lhandlers /\ wtodo \cap wvisited = {})
    /\ wpc \in {"select", "flushLen", "drain", "rlock", "visit"}

\* C10 witness: after an earlier record's emit had a failing Emit, a later
\* record has been through the whole range loop: one handler's Emit returned
\* an error and the handler visited after it still received the record.
C10_Witness ==
    /\ errSeen
    /\ wpc = "visit"
    /\ wtodo = {}
    /\ werr
    /\ wgot = lhandlers
    /\ lastVisit.invoked
    /\ ~lastVisit.err

\* C5 (as claimed): when close() has returned, the loop has terminated, every
\* record enqueued before the close was dispatched, and the queue accepts no
\* record any more.
C5_CloseDrainsAndStops ==
    \A k \in Closers :
        kpc[k] = "returned" =>
            /\ wpc = "exited"
            /\ \A i \in 1..ksnap[k] : enqueued[i] \in Range(dispatched)
            /\ chClosed

\* C6 (as claimed, in its narrowest reading): a second Logger.Close, made
\* when nothing was opened since the first one returned, can always go on
\* (no deadlock) and returns no error.
C6_SecondCloseReturnsNormally ==
    \A c \in Closers :
        /\ (Len(cresults[c]) = 1 /\ cpc[c] \in {"send", "wait", "closing"})
               => ENABLED (CloserStep(c) \/ WorkerSelectFlush \/ WorkerSelectRecord \/ WorkerStep)
        /\ (Len(cresults[c]) >= 2 /\ cresults[c][2].opened = cresults[c][1].opened)
               => cresults[c][2].err = NoError

\* C7 (as claimed): no resource's Close is invoked more than once.
C7_ResourceClosedAtMostOnce ==
    \A r \in 1..MaxResources : closeCalls[r] <= 1

\* C11: during the dispatch of a record the logger's handler set is the one
\* emit found when it took the lock: the handlers visited and those still to
\* visit are exactly the registered ones, and none is both.
C11_HandlerSetSnapshot ==
    wpc = "visit" =>
        /\ wtodo \cup wvisited = lhandlers
        /\ wtodo \cap wvisited = {}

\* a dispatch is half way through a handler set of two that a mutator made
C11_Witness ==
    /\ wpc = "visit"
    /\ wvisited # {}
    /\ wtodo # {}
    /\ wrec.id >= 2
    /\ dispatched # <<>>

\* C12: when Fatal has exited the process or Panic has raised its panic, the
\* record the call logged has been dispatched: its emit went over every
\* handler, and the record is nowhere on its way any more.
C12_FatalRecordDispatched ==
    \A t \in FatalCallers :
        tpc[t] \in {"exited", "panicked"} =>
            /\ tid[t] \in Range(dispatched)
            /\ Occurrences(tid[t]) = 1

\* Fatal exited on a Logger that is not gInstance, after a record of another
\* thread
C12_Witness ==
    \E t \in FatalCallers :
        /\ tpc[t] = "exited"
        /\ ~tdefault
        /\ tid[t] = 2
        /\ Len(dispatched) = 2

\* C13 (as claimed): when Fatal has exited the process or Panic has raised its
\* panic, Close was called on every handler of the Logger it was called on.
C13_FatalClosesOwnHandlers ==
    \A t \in FatalCallers :
        tpc[t] \in {"exited", "panicked"} =>
            \A h \in lhandlers : \A c \in Closers :
                \E i \in DOMAIN clog[c] : clog[c][i].handler = h

\* C14: a Logger.Close closes handlers only after its flush was served; when
\* it has returned it has called Close on every registered handler, once
\* each, whatever the earlier ones returned, and its result is nil exactly
\* when no handler Close failed and otherwise the error of the last handler
\* that failed, in the order visited.
C14_CloseAggregatesErrors ==
    \A c \in Closers :
        /\ cpc[c] = "closing" => fdone[c]
        /\ (cpc[c] = "returned" /\ cresults[c] # <<>>) =>
              LET log == clog[c]
                  failed == {i \in DOMAIN log : log[i].err}
                  last == CHOOSE i \in failed : \A j \in failed : j <= i
                  res == cresults[c][Len(cresults[c])].err
              IN  /\ {log[i].handler : i \in DOMAIN log} = lhandlers
                  /\ Len(log) = Cardinality(lhandlers)
                  /\ res = (IF failed = {} THEN NoError ELSE log[last].handler)

\* a Close returned after both handlers, each holding an open resource, failed
\* to close
C14_Witness ==
    \E c \in Closers :
        /\ cpc[c] = "returned"
        /\ Len(clog[c]) = 2
        /\ clog[c][1].err
        /\ clog[c][2].err
        /\ cresults[c][Len(cresults[c])].err = clog[c][2].handler

\* C15: a log call that has built its record eventually completes its
\* enqueue, whatever the handlers' Emit calls return (every outcome of open,
\* write and close is possible at every Emit, all failing included).
C15_EnqueueCompletes ==
    \A p \in Producers : (pending[p] # NoRec) ~> (pending[p] = NoRec)

\* a producer is blocked on the full queue while the worker is inside an emit
\* in which a handler failed, after an emit in which one failed
C15_Witness ==
    \E p \in Producers :
        /\ pending[p] # NoRec
        /\ Len(queue) = QueueLength
        /\ wpc = "visit"
        /\ werr
        /\ errSeen

\* C16: at most one Worker and one default Logger are ever made and at most
\* one consumer loop started; a call that has returned returned the one
\* instance of its kind, made by then, with (for the Worker) its loop started.
C16_OneInstance ==
    /\ \A k \in Getters : made[k] <= 1
    /\ loops <= 1
    /\ \A c \in OnceCallers :
          gpc[c] = "returned" =>
              /\ made[gwhich[c]] = 1
              /\ gret[c] = 1
              /\ instance[gwhich[c]] = 1
              /\ (gwhich[c] = "GetWorker" => loops = 1)

\* two first calls of GetWorker overlap: one is inside NewWorker, before the
\* loop is started, the other waits in Do; a third thread is inside New
C16_Witness ==
    \E a, b, c \in OnceCallers :
        /\ gpc[a] = "go" /\ gwhich[a] = "GetWorker"
        /\ gpc[b] = "wait" /\ gwhich[b] = "GetWorker"
        /\ gpc[c] = "assign" /\ gwhich[c] = "Get"

\* C17: a step opens a resource only as the Emit of a handler that held no
\* writer or had a reopen requested, and the handler then holds the resource
\* just opened; no other step (a setter, Close) opens one; an Emit of a
\* handler that holds a writer and has no reopen requested keeps that writer.
C17_OpenOnlyInEmit ==
    [][ /\ (nextRes' # nextRes) =>
              \E h \in HandlerNames :
                  /\ wpc = "visit"
                  /\ h \in wvisited' \ wvisited
                  /\ sWriter[h] = 0 \/ sReopen[h]
                  /\ sWriter[h] # 0 => closeCalls[sWriter[h]] < closeCalls'[sWriter[h]] \/ closeCalls[sWriter[h]] = CloseCallsCap
                  /\ sWriter'[h] = nextRes
                  /\ nextRes' = nextRes + 1
        /\ \A h \in HandlerNames :
              (h \in wvisited' \ wvisited /\ sWriter[h] # 0 /\ ~sReopen[h])
                  => sWriter'[h] = sWriter[h]
      ]_vars

\* a handler whose first resource was closed once has opened a second one at
\* a later emission and holds it
C17_Witness ==
    /\ nextRes > 2
    /\ \E h \in HandlerNames : sWriter[h] = 2 /\ closeCalls[1] = 1 /\ ~sReopen[h]
    /\ Len(dispatched) >= 1

\* C18: an Emit that succeeds never wrote to a resource opened before a later
\* change of the handler's target, and a setter called with the current value
\* requests no reopen.
C18_ReopenOnChange ==
    [][ /\ \A h \in HandlerNames :
              (h \in wvisited' \ wvisited /\ lastVisit'.invoked /\ ~lastVisit'.err)
                  => sWriter'[h] \notin stale
        /\ \A h \in HandlerNames :
              (fName'[h] = fName[h] /\ sReopen'[h]) => sReopen[h]
      ]_vars

\* after a change of its target a handler writes to a resource opened after
\* the change, the one it held before being closed
C18_Witness ==
    \E h \in HandlerNames :
        /\ fName[h] # DefaultFileName
        /\ 1 \in stale
        /\ closeCalls[1] = 1
        /\ sWriter[h] = 2
        /\ wpc = "visit"
        /\ lastVisit.handler = h
        /\ lastVisit.invoked
        /\ ~lastVisit.err

\* C19: with no arguments FormatMessage returns the message as it is, and no
\* error, whatever the message holds.
C19_NoArgumentsVerbatim ==
    (fmtpc = "done" /\ fargs = <<>>) =>
        /\ ~fres.err
        /\ fres.message = fmsg

\* FormatMessage returned for a message of a placeholder and text that is no
\* valid template, with no arguments
C19_Witness ==
    /\ fmtpc = "done"
    /\ fres.called
    /\ fargs = <<>>
    /\ \E i, j \in DOMAIN fmsg : fmsg[i].kind = "pos" /\ fmsg[j].kind = "bad"

\* what a caller can tell of one FormatMessage call from the record alone
AutoCount(msg) == Cardinality({i \in DOMAIN msg : msg[i].kind = "auto"})
ReferencedPositions(msg, args) ==
    {msg[i].n : i \in {j \in DOMAIN msg : msg[j].kind = "pos"}}
        \cup {q \in 0..(Len(args) - 1) : q < AutoCount(msg)}
LeftOver(msg, args) ==
    {q \in 0..(Len(args) - 1) :
        /\ q \notin ReferencedPositions(msg, args)
        /\ args[q + 1] \notin {"named", "struct"}}
Resolved(msg, res) == SubSeq(res.message, 1, Len(msg))
Appended(msg, res) == SubSeq(res.message, Len(msg) + 1, Len(res.message))

\* the values of the positions in S from q on, each after one space
RECURSIVE SpacedValues(_, _, _)
SpacedValues(args, S, q) ==
    IF q >= Len(args) THEN <<>>
    ELSE IF q \in S THEN <<Space, Value(args, q)>> \o SpacedValues(args, S, q + 1)
    ELSE SpacedValues(args, S, q + 1)

\* the same, but a space goes before a value only when the text before it,
\* the resolved message included, is not empty
RECURSIVE JoinedValues(_, _, _, _)
JoinedValues(args, S, q, before) ==
    IF q >= Len(args) THEN <<>>
    ELSE IF q \in S
         THEN LET piece == IF IsEmptyText(before) THEN <<Value(args, q)>>
                           ELSE <<Space, Value(args, q)>>
              IN  piece \o JoinedValues(args, S, q + 1, before \o piece)
    ELSE JoinedValues(args, S, q + 1, before)

FormattedWithArguments == fmtpc = "done" /\ fargs # <<>> /\ ~fres.err

\* C20 (as amended): after the message is resolved, exactly the positions that
\* no positional placeholder names, that the automatic placeholder did not
\* take, and that hold neither a named bundle nor a struct are appended, in
\* their order, in their default string form; a single space goes before an
\* appended value exactly when the text before it is not empty.
C20_AppendsLeftOverArguments ==
    FormattedWithArguments =>
        /\ Len(fres.message) >= Len(fmsg)
        /\ Appended(fmsg, fres) =
               JoinedValues(fargs, LeftOver(fmsg, fargs), 0, Resolved(fmsg, fres))

\* a message that names the second of two arguments, and whose first argument
\* is appended after it
C20_Witness ==
    /\ FormattedWithArguments
    /\ fres.called
    /\ Len(fargs) = 2
    /\ fmsg = <<[kind |-> "pos", n |-> 1]>>
    /\ LeftOver(fmsg, fargs) = {0}
    /\ Len(Appended(fmsg, fres)) > 0

\* C20 (as stated): every appended value, the first one included, comes after
\* a single space.
C20_AlwaysSpaced ==
    FormattedWithArguments =>
        /\ Len(fres.message) >= Len(fmsg)
        /\ Appended(fmsg, fres) = SpacedValues(fargs, LeftOver(fmsg, fargs), 0)

\* the positions whose value stands in the appended part of a result
AppendedPositions(msg, res) ==
    {Appended(msg, res)[i].n :
        i \in {j \in DOMAIN Appended(msg, res) : Appended(msg, res)[j].kind = "value"}}
Scalars(args) == {q \in 0..(Len(args) - 1) : args[q + 1] \in {"text", "empty"}}
Bundles(args) == {q \in 0..(Len(args) - 1) : args[q + 1] \in {"named", "struct"}}
CallsKey(msg) == \E i \in DOMAIN msg : msg[i].kind = "name"

\* C21: a named bundle and a struct are never appended, whether the message
\* calls a key or not, and with one of them among the arguments every scalar
\* position that no placeholder took is still appended.
C21_BundlesNeverAppended ==
    (FormattedWithArguments /\ Len(fres.message) >= Len(fmsg)) =>
        /\ AppendedPositions(fmsg, fres) \cap Bundles(fargs) = {}
        /\ Scalars(fargs) \ ReferencedPositions(fmsg, fargs) \subseteq AppendedPositions(fmsg, fres)

\* a message that calls the key of a bundle, formatted with the bundle and a
\* scalar no placeholder takes: the scalar is appended, the bundle is not
C21_Witness ==
    /\ FormattedWithArguments
    /\ fres.called
    /\ CallsKey(fmsg)
    /\ fargs = <<"named", "text">>
    /\ AppendedPositions(fmsg, fres) = {1}

\* the lowest position no earlier placeholder evaluation has taken
Unconsumed(args, consumed) == {q \in 0..(Len(args) - 1) : q \notin consumed}
NextUnconsumed(args, consumed) ==
    CHOOSE q \in Unconsumed(args, consumed) : \A r \in Unconsumed(args, consumed) : q <= r

\* the text a message resolves to when every automatic placeholder gives the
\* next argument that no earlier placeholder evaluation has marked used
RECURSIVE SkippingResolve(_, _, _, _)
SkippingResolve(msg, args, k, consumed) ==
    IF k > Len(msg) THEN <<>>
    ELSE LET t == msg[k]
         IN  CASE t.kind = "auto" ->
                    IF Unconsumed(args, consumed) = {}
                    THEN <<NoValue>> \o SkippingResolve(msg, args, k + 1, consumed)
                    ELSE <<Value(args, NextUnconsumed(args, consumed))>>
                            \o SkippingResolve(msg, args, k + 1,
                                               consumed \cup {NextUnconsumed(args, consumed)})
               [] t.kind = "pos" ->
                    <<Value(args, t.n)>> \o SkippingResolve(msg, args, k + 1, consumed \cup {t.n})
               [] t.kind = "name" ->
                    <<KeyValue(LastBundle(args))>>
                        \o SkippingResolve(msg, args, k + 1, consumed \cup {LastBundle(args)})
               [] OTHER ->
                    <<t>> \o SkippingResolve(msg, args, k + 1, consumed)

\* C22: in one resolution each automatic placeholder gives the next argument,
\* in positional order, that no earlier placeholder evaluation has marked
\* used, and nothing once the arguments are exhausted.
C22_AutomaticTakesNextUnconsumed ==
    (FormattedWithArguments /\ Len(fres.message) >= Len(fmsg)) =>
        Resolved(fmsg, fres) = SkippingResolve(fmsg, fargs, 1, {})

DateFails == dateFormat # <<>> /\ ~TemplateParses(dateFormat, funcs)
MessageFails == fargs # <<>> /\ fmsg # <<>> /\ ~Parses(fmsg, fargs)
FormatFails == format # <<>> /\ ~TemplateParses(format, funcs)
Holds(tmpl, kind) == \E i \in DOMAIN tmpl : tmpl[i].kind = kind
FailureInFormat ==
    \/ FormatFails
    \/ Holds(format, "date") /\ DateFails
    \/ Holds(format, "message") /\ MessageFails

\* C24: a failure of a template a call involves (the format, the date format,
\* the message of a record with arguments) makes Format, FormatTime and
\* FormatMessage return an error.
C24_FailureIsReturned ==
    /\ (tres.op = "Format" /\ FailureInFormat) => tres.err
    /\ (tres.op = "FormatTime" /\ DateFails) => tres.err
    /\ (tres.op = "FormatMessage" /\ MessageFails) => fres.err

\* the call involves no failure other than, possibly, the function's name
OnlyCallsFunction(tmpl) == \A i \in DOMAIN tmpl : tmpl[i].kind \in {"text", "func"}

\* C25: a function added with AddFuncs can be called in the top-level format
\* and in the message of a record with arguments, and in both places the call
\* gives what the function returns.
C25_AddedFunctionResolves ==
    FunctionName \in funcs =>
        /\ (tres.op = "Format" /\ Holds(format, "func") /\ OnlyCallsFunction(format)) =>
               (~tres.err /\ Called \in Range(tres.out))
        /\ (tres.op = "FormatMessage" /\ fargs # <<>> /\ Holds(fmsg, "func")
                /\ OnlyCallsFunction(fmsg)) =>
               (~fres.err /\ Called \in Range(fres.message))

\* C28: GetDateFormat returns the date format in use: the default one on a new
\* or reset Formatter, else what the last SetDateFormat was given, whatever
\* SetFormat was given.
C28_GetDateFormatReturnsDateFormat ==
    tres.op = "GetDateFormat" => tres.out = dateFormat

\* C26: a lookup by a name that is not there (CreateHandler, CreateIDGenerator,
\* GetHandler) returns an error and no object, and leaves the registries and
\* the Logger's handler set as they were.
C26_UnknownNameGivesError ==
    [][(lres' # lres /\ ~lres'.known) =>
          /\ lres'.err
          /\ lres'.obj = NoObject
          /\ UNCHANGED <<gHandlerConstructors, gIDGeneratorConstructors, lhandlers>>]_vars

\* GetHandler was called with the name of a handler that had been removed
C26_Witness ==
    /\ lres.op = "GetHandler"
    /\ lres.name \in HandlerNames
    /\ ~lres.known
    /\ lres.err

\* C27: after Reset, by the method or by the package function, the Logger is
\* configured as New configures it: the default error code, the UUID4
\* generator, no name, the two default handlers.
C27_ResetRestoresNew ==
    [][(LoggerReset \/ PackageReset) =>
          /\ lerrorCode' = DefaultErrorCode
          /\ lidGenerator' = DefaultIDGenerator
          /\ lname' = ""
          /\ lhandlers' = DefaultHandlers]_vars

\* C29: the error Panic raises carries the message that Panic call logged.
C29_PanicCarriesMessage ==
    \A t \in FatalCallers : tpc[t] = "panicked" => traised[t] = tmessage[t]

\* the frames of the logging API on a stack, and the public function among them
ApiFrames(frames) == {i \in DOMAIN frames : frames[i].kind # "user"}
PublicFrame(frames) == CHOOSE i \in ApiFrames(frames) : \A j \in ApiFrames(frames) : i <= j
Captured == csource # NoFrame /\ stack # <<>>

\* C30: the call site recorded is the frame that called the public leveled
\* function, through a Logger method and through the package function alike,
\* and the skip count is the number of frames of the logging API on the stack.
C30_CallSiteIsCallerOfPublicFunction ==
    Captured =>
        /\ csource = stack[PublicFrame(stack) - 1]
        /\ csource.kind = "user"
        /\ cskip = Cardinality(ApiFrames(stack))

\* a helper called by another function of the caller logged through a method
\* of a Logger, and the record holds the helper's frame
C30_Witness ==
    /\ Captured
    /\ Len(stack) = 4
    /\ stack[3].kind = "method"
    /\ csource = stack[2]

\* the flush branch is between its capture of the length and flush.Done()
Draining == wflush # NoFlush /\ wpc # "flushLen"

\* the flush branch has left its loop: the next step is flush.Done()
DrainOver == wpc = "drain" /\ ~DrainGoesOn(wcount, queue)

\* C31: while handling one flush request the worker dequeues the records the
\* queue held when it captured the length, in their order and no others; it
\* leaves the loop, to acknowledge the flush, when it has dequeued all of
\* them and not before, and the caller is not released during the drain. A
\* record whose send completed during the drain is not dequeued by that flush.
C31_FlushDrainsCapturedLength ==
    /\ Draining => /\ Len(drain.taken) <= Len(drain.held)
                   /\ drain.taken = SubSeq(drain.held, 1, Len(drain.taken))
                   /\ wflush \in Waiters => ~fdone[wflush]
    /\ DrainOver => drain.taken = drain.held
    /\ ~Draining => drain = NoDrain

\* the flush branch has dequeued and dispatched the two records the full
\* queue held and is about to acknowledge, while a third record, sent during
\* the drain, stays in the queue
C31_Witness ==
    /\ DrainOver
    /\ Len(drain.held) = QueueLength
    /\ drain.taken = drain.held
    /\ Len(dispatched) = QueueLength
    /\ queue # <<>>

\* the goroutines that goroutine t, which cannot proceed, waits for: the
\* writer of the mutex, its readers, or the worker at the other end of a
\* channel or a wait group (nobody for a receive from the empty queue)
WaitsFor(t) ==
    CASE Idle(t) -> {}
      [] Next1(t).op \in {"lock", "rlock"} -> {mu[Next1(t).m].w}
      [] Next1(t).op = "lockwait" -> mu[Next1(t).m].r
      [] Next1(t).op \in {"send", "fsend", "fwait"} -> {LockWorker}
      [] OTHER -> {}

\* the goroutines of S that wait for nobody or for a goroutine of S
StillWaiting(S) == {t \in S : WaitsFor(t) = {} \/ WaitsFor(t) \cap S # {}}

\* the largest set of goroutines that cannot proceed and wait only on each other
RECURSIVE WaitingForEver(_)
WaitingForEver(S) == IF StillWaiting(S) = S THEN S ELSE WaitingForEver(StillWaiting(S))

\* the goroutines inside a call (or the worker inside a branch of its loop)
\* that wait for ever
Deadlocked == {t \in WaitingForEver({u \in LockThreads : ~Ready(u)}) : ~Idle(t)}

\* the mutexes goroutine t holds, for reading or writing, or has announced
\* itself on as a writer
Held(t) == {m \in Mutexes : mu[m].w = t \/ t \in mu[m].r}

\* the order of the locks: the Logger's, a Stream's, a Formatter's
LockRank(m) == IF m = LoggerMutex THEN 1 ELSE IF m \in HandlerNames THEN 2 ELSE 3

\* C32: in no state reached by log calls, Logger configuration calls, handler
\* setters, Flush and Close running with the worker does a goroutine inside
\* a call wait for ever; a goroutine asks for a lock only when every lock it
\* holds comes earlier in the order logger, handler, formatter, so it never
\* asks for one it holds.
C32_NoDeadlockLockOrder ==
    /\ Deadlocked = {}
    /\ \A t \in LockThreads :
          (~Idle(t) /\ Next1(t).op \in {"lock", "rlock"}) =>
              \A m \in Held(t) : LockRank(m) < LockRank(Next1(t).m)

\* the worker is inside Format holding the three locks of its path, a setter
\* has announced itself on the Logger's lock and waits for the worker to
\* leave, Close waits for its flush behind a full queue that blocks the
\* producer
C32_Witness ==
    /\ Held(LockWorker) = {LoggerMutex, "h1", FormatterOf("h1")}
    /\ ~Idle("s1") /\ Next1("s1") = Op("lockwait", LoggerMutex)
    /\ ~Idle("c1") /\ Next1("c1").op = "fwait"
    /\ ~Idle("p1") /\ ~Ready("p1")

\* C33: the Stream holds at most one open resource, and every resource it
\* opened or was given and that is not closed is the closer it holds; Open
\* is called only over no writer and no closer; a closer is let go only by a
\* call in which its Close returned success.
C33_OneOpenResourceNoneDropped ==
    /\ Cardinality(sopen) <= 1
    /\ sopen \subseteq {stream.closer}
    /\ \A i \in DOMAIN slog.events :
          /\ slog.events[i].op = "open" => slog.events[i].over = NoOpen
          /\ slog.events[i].op = "let go" => slog.events[i].closed

\* an Emit after a reopen request closed the resource the Stream held, let it
\* go and opened the next one, which is the one open resource
C33_Witness ==
    /\ slog.call = "Emit"
    /\ Len(slog.events) = 2
    /\ slog.events[1].op = "open" /\ slog.events[1].res = 2
    /\ slog.events[2].op = "let go" /\ slog.events[2].res = 1
    /\ sopen = {2}
    /\ stream.closer = 2

\* the last call on the Stream was an Emit whose Open failed
OpenFailedInEmit == slog.call = "Emit" /\ slog.openFailed

\* C39: an Emit whose Open failed returned an error and wrote nothing; it
\* left the Stream without writer and closer, with the level range, the
\* formatter and the enable flag it had, and an Emit called next calls Open.
C39_OpenFailureLeavesStreamReady ==
    OpenFailedInEmit =>
        /\ slog.err
        /\ ~slog.wrote
        /\ stream.writer = 0 /\ stream.closer = 0
        /\ stream.minimumLevel = slog.before.minimumLevel
        /\ stream.maximumLevel = slog.before.maximumLevel
        /\ stream.formatter = slog.before.formatter
        /\ stream.isDisabled = slog.before.isDisabled
        /\ \A io \in IOOutcomes : StreamEmitFields(stream, io, nextRes).openCalled

\* Open failed in the Emit that had closed the held resource on a reopen
\* request, on a Stream set to one level and disabled
C39_Witness ==
    /\ OpenFailedInEmit
    /\ slog.before.reopen /\ slog.before.closer # 0
    /\ stream.minimumLevel = DebugLevel
    /\ stream.isDisabled

\* the replaced channels no goroutine receives from any more
Abandoned == {i \in DOMAIN qold : qbind[LockWorker] # i}

\* the records left in a channel no goroutine receives from
Lost == UNION {{qold[i].buf[k].id : k \in DOMAIN qold[i].buf} : i \in Abandoned}

\* the producers whose send waits on a full channel no goroutine receives from
BlockedForEver ==
    {p \in Producers : /\ pending[p] # NoRec
                       /\ qbind[p] \in Abandoned
                       /\ ~ChanCanSend(qold[qbind[p]].buf, qold[qbind[p]].cap)}

\* C34 (as claimed): with SetQueueLength called while the logger is in use,
\* no enqueued record is left where the worker never receives it and no
\* producer is left blocked for ever.
C34_SetQueueLengthLosesNothing ==
    /\ Lost = {}
    /\ BlockedForEver = {}

\* the fields of a Record a caller of Logger.Emit can have set
PresetFields == {"Type", "Name", "ID", "Address", "Hostname", "FileName",
                 "Function", "Created"}

\* the zero value of field f
Empty(f) == NoRecord[f]

\* C35 (as claimed): the fields already set on a Record injected with
\* Logger.Emit reach the handlers unchanged; only the owning logger is
\* stamped and only fields that were empty are filled.
C35_InjectedFieldsPreserved ==
    ipc = "emitted" =>
        \A f \in PresetFields : ipre[f] # Empty(f) => irec[f] = ipre[f]

\* emit takes the logger's read lock for the record it received
DispatchBegins == wpc = "rlock" /\ wpc' = "visit"

\* emit returns
DispatchEnds == wpc = "visit" /\ wpc' # "visit"

\* the handlers the range loop visits in this step
VisitedNow == wvisited' \ wvisited

\* C36: what is applied to a record is what is in force when the worker
\* dispatches it. When emit takes the lock, the record gets the logger's name
\* of that moment and the loop is set on the handlers registered at that
\* moment; until emit returns neither changes; each handler visited gets the
\* record exactly when the level lies in the range the handler has at that
\* visit; emit returns with every registered handler visited.
C36_DispatchTimeBinding ==
    [][ /\ DispatchBegins =>
            /\ wtodo' = lhandlers
            /\ wname' = (IF lname = "" THEN ProgramName ELSE lname)
        /\ wpc = "visit" => (lhandlers' = lhandlers /\ lname' = lname)
        /\ (wpc = "visit" /\ wpc' = "visit") =>
              \A h \in VisitedNow :
                  (h \in wgot') <=> InRange(wrec.level, hMin[h], hMax[h])
        /\ DispatchEnds => wvisited = lhandlers ]_vars

\* C36 witness: the record of the latest log call went through the range
\* loop after the logger changed: a handler added after the call received it,
\* with a range that excluded the record when the call was made, a handler
\* removed after the call was not visited, and the record has the new name.
C36_Witness ==
    /\ wpc = "visit"
    /\ wtodo = {}
    /\ wrec.id = atCall.id
    /\ \E h \in lhandlers \ atCall.handlers :
          /\ h \in wgot
          /\ ~InRange(wrec.level, atCall.min[h], atCall.max[h])
    /\ \E h \in atCall.handlers \ lhandlers : h \notin wvisited
    /\ atCall.name = ""
    /\ wname = "app"

\* the handlers Close was called on by call c of Logger.Close so far
ClosedBy(c) == {clog[c][i].handler : i \in DOMAIN clog[c]}

\* this step is a Close of handler h made by Logger.Close call c
ClosesHandler(c, h) ==
    /\ cpc[c] = "closing"
    /\ h \in ctodo[c]
    /\ ctodo'[c] = ctodo[c] \ {h}
    /\ clog'[c] = Append(clog[c], [handler |-> h, err |-> clog'[c][Len(clog'[c])].err])

\* C37: Logger.Close closes exactly the handlers registered when it takes the
\* write lock. The loop is set on the handler set of that moment, which stays
\* as it is until Close returns; Close returns when every one of them was
\* closed; a handler's Close and a resource's Close are called in no step
\* but a loop iteration of Logger.Close on a registered handler (and, for a
\* resource, the reopening of Stream.Emit), so RemoveHandler, RemoveHandlers,
\* SetHandlers, ResetHandlers and Reset close nothing.
C37_CloseExactlyRegistered ==
    [][ \A c \in Closers :
          /\ (cpc[c] = "wait" /\ cpc'[c] = "closing") => ctodo'[c] = lhandlers
          /\ cpc[c] = "closing" =>
                /\ lhandlers' = lhandlers
                /\ ctodo[c] \cup ClosedBy(c) = lhandlers
                /\ ctodo[c] \cap ClosedBy(c) = {}
          /\ (cpc[c] = "closing" /\ cpc'[c] = "returned") => ClosedBy(c) = lhandlers
          /\ clog'[c] # clog[c] =>
                \/ cpc[c] = "wait" /\ clog'[c] = <<>>
                \/ \E h \in lhandlers : ClosesHandler(c, h)
          /\ closeCalls' # closeCalls =>
                \/ \E h \in lhandlers : ClosesHandler(c, h)
                \/ wpc = "visit" /\ wvisited' # wvisited ]_vars

\* C37 witness: Close returned after closing the one registered handler,
\* while the handler dropped before it still holds its open resource, whose
\* Close was never called.
C37_Witness ==
    \E c \in Closers : \E h \in HandlerNames \ lhandlers :
        /\ cpc[c] = "returned"
        /\ ClosedBy(c) = lhandlers
        /\ lhandlers # {}
        /\ sWriter[h] # 0
        /\ closeCalls[sWriter[h]] = 0
        /\ \A g \in lhandlers : sWriter[g] = 0

\* a Logger.Close call has returned and no other is under way
Closed == \E c \in Closers : cpc[c] = "returned"

\* the positions of the loop of Worker.run and of emit
InLoop == wpc \in {"select", "flushLen", "drain", "rlock", "visit"}

\* every record a log call has built so far was dispatched
AllDispatched == \A id \in 1 .. nextId - 1 : id \in Range(dispatched)

\* C38: Logger.Close is not terminal. The worker is always in its loop and
\* its queue open; again and again every record that a log call has built,
\* also after a Close returned, has been dispatched; when the loop then visits a handler
\* that holds no resource, the handler comes out with a newly opened one
\* unless its Emit failed; and a handler gives up the resource it holds in no
\* step but an iteration of Logger.Close on it.
C38_CloseIsNotTerminal ==
    /\ [](InLoop /\ ~chClosed)
    /\ []<>AllDispatched
    /\ [][ \A h \in HandlerNames :
              /\ (Closed /\ h \in VisitedNow /\ sWriter[h] = 0 /\ lastVisit'.invoked) =>
                    \/ lastVisit'.err
                    \/ /\ sWriter'[h] = nextRes
                       /\ nextRes' = nextRes + 1
                       /\ closeCalls[nextRes] = 0
              /\ (sWriter[h] # 0 /\ sWriter'[h] # sWriter[h]) =>
                    \E c \in Closers : ClosesHandler(c, h) ]_vars

\* C38 witness: a record logged after Logger.Close had closed the handlers'
\* first resources was dispatched: the handlers hold newly opened resources,
\* still open, and the worker waits for more.
C38_Witness ==
    /\ Closed
    /\ wpc = "select"
    /\ Len(dispatched) = 2
    /\ closeCalls[1] = 1
    /\ \E h \in lhandlers : sWriter[h] > 1 /\ closeCalls[sWriter[h]] = 0

\* the severity code in a priority
SeverityOf(priority) == priority % 8

\* C40 (as claimed): of two records the one with the lower level never gets
\* a more severe (smaller) severity code than the one with the higher level,
\* and the priority is (facility mod 32) * 8 + severity, severity in 0..7.
C40_SeverityMonotone ==
    /\ \A i, j \in DOMAIN ylast :
          ylast[i].level < ylast[j].level =>
              SeverityOf(ylast[i].priority) >= SeverityOf(ylast[j].priority)
    /\ \A i \in DOMAIN ylast :
          \E severity \in 0 .. 7 :
              ylast[i].priority = (facility % 32) * 8 + severity

====
